---- MODULE Spec2Model ----
(***************************************************************************)
(* Model of py-tsuro: the board / path / graph engine of a Tsuro game.     *)
(*                                                                         *)
(* Conventions.  An Option<T> is a sequence of length 0 (None) or 1        *)
(* (Some(x) = <<x>>).  A Coord is a pair <<x, y>>, a MarkerPosition is its *)
(* lattice coordinate pair, a Tile is its connections array, a function    *)
(* on 0..7.  Vec<T> is a sequence; player p is markers[p + 1].             *)
(***************************************************************************)
EXTENDS Integers, Sequences, FiniteSets, TLC

None == <<>>

Some(x) == <<x>>

IsSome(o) == Len(o) = 1

IsNone(o) == Len(o) = 0

Unwrap(o) == o[1]

EntryPoints == 0..7

BoardSize == 6

LatticeMax == 18

NumNodes == 168

NumBorder == 48

TileCoords == (0..(BoardSize - 1)) \X (0..(BoardSize - 1))

(***************************************************************************)
(* Tile (tile.rs)                                                          *)
(***************************************************************************)

\* Tile::new: the code is given as its dash-separated groups, each a pair of
\* digit values; byte - b'1' turns the 1-indexed digit into an entry point.
RECURSIVE TileNewFrom(_, _, _)
TileNewFrom(code, k, connections) ==
    IF k > Len(code) THEN connections
    ELSE LET from == code[k][1] - 1
             to == code[k][2] - 1
             c1 == [connections EXCEPT ![from] = to]
             c2 == [c1 EXCEPT ![to] = from]
         IN TileNewFrom(code, k + 1, c2)

\* Faulty variant of Tile::new: only connections[from] is written.
TileNew_OneWay(code) ==
    [i \in EntryPoints |->
        IF \E k \in 1..Len(code) : code[k][1] - 1 = i
        THEN (CHOOSE pair \in {code[k] : k \in 1..Len(code)} : pair[1] - 1 = i)[2] - 1
        ELSE 0]

TileNew(code) == TileNewFrom(code, 1, [i \in EntryPoints |-> 0])

ALL_TILES_CODES ==
    << <<<<1,2>>,<<3,4>>,<<5,6>>,<<7,8>>>>,
       <<<<1,4>>,<<2,7>>,<<3,6>>,<<5,8>>>>,
       <<<<1,5>>,<<2,6>>,<<3,7>>,<<4,8>>>>,
       <<<<1,6>>,<<2,5>>,<<3,8>>,<<4,7>>>>,
       <<<<1,8>>,<<2,3>>,<<4,5>>,<<6,7>>>>,
       <<<<1,2>>,<<3,7>>,<<4,8>>,<<5,6>>>>,
       <<<<1,2>>,<<3,8>>,<<4,7>>,<<5,6>>>>,
       <<<<1,6>>,<<2,5>>,<<3,7>>,<<4,8>>>>,
       <<<<1,7>>,<<2,4>>,<<3,5>>,<<6,8>>>>,
       <<<<1,5>>,<<2,7>>,<<3,6>>,<<4,8>>>>,
       <<<<1,7>>,<<2,8>>,<<3,5>>,<<4,6>>>>,
       <<<<1,8>>,<<2,6>>,<<3,7>>,<<4,5>>>>,
       <<<<1,8>>,<<2,7>>,<<3,6>>,<<4,5>>>>,
       <<<<1,3>>,<<2,6>>,<<4,8>>,<<5,7>>>>,
       <<<<1,5>>,<<2,8>>,<<3,7>>,<<4,6>>>>,
       <<<<1,2>>,<<3,5>>,<<4,7>>,<<6,8>>>>,
       <<<<1,2>>,<<3,6>>,<<4,7>>,<<5,8>>>>,
       <<<<1,2>>,<<3,8>>,<<4,5>>,<<6,7>>>>,
       <<<<1,2>>,<<3,8>>,<<4,6>>,<<5,7>>>>,
       <<<<1,7>>,<<2,4>>,<<3,6>>,<<5,8>>>>,
       <<<<1,8>>,<<2,3>>,<<4,6>>,<<5,7>>>>,
       <<<<1,2>>,<<3,4>>,<<5,7>>,<<6,8>>>>,
       <<<<1,2>>,<<3,4>>,<<5,8>>,<<6,7>>>>,
       <<<<1,6>>,<<2,3>>,<<4,7>>,<<5,8>>>>,
       <<<<1,6>>,<<2,8>>,<<3,5>>,<<4,7>>>>,
       <<<<1,7>>,<<2,3>>,<<4,6>>,<<5,8>>>>,
       <<<<1,7>>,<<2,8>>,<<3,6>>,<<4,5>>>>,
       <<<<1,2>>,<<3,6>>,<<4,8>>,<<5,7>>>>,
       <<<<1,2>>,<<3,7>>,<<4,6>>,<<5,8>>>>,
       <<<<1,2>>,<<3,7>>,<<4,5>>,<<6,8>>>>,
       <<<<1,2>>,<<3,5>>,<<4,8>>,<<6,7>>>>,
       <<<<1,3>>,<<2,6>>,<<4,7>>,<<5,8>>>>,
       <<<<1,5>>,<<2,8>>,<<3,6>>,<<4,7>>>>,
       <<<<1,3>>,<<2,5>>,<<4,8>>,<<6,7>>>>,
       <<<<1,6>>,<<2,8>>,<<3,7>>,<<4,5>>>> >>

\* ALL_TILES[i], i in 0..34, as the source indexes the catalog.
ALL_TILES == [i \in 0..(Len(ALL_TILES_CODES) - 1) |-> TileNew(ALL_TILES_CODES[i + 1])]

\* Faulty variant of Tile::rotated: the connectors move but keep their old
\* target numbers.
rotated_NoShift(connections, num0) ==
    LET num == num0 % 4
    IN [i \in EntryPoints |->
          LET idx == IF i < num * 2 THEN 8 + i - num * 2 ELSE i - num * 2
          IN connections[idx]]

\* Tile::rotated
rotated(connections, num0) ==
    LET num == num0 % 4
    IN [i \in EntryPoints |->
          LET idx == IF i < num * 2 THEN 8 + i - num * 2 ELSE i - num * 2
          IN (connections[idx] + num * 2) % 8]

\* Tile::paths: scan of the entry points with the used_vertices marks; the
\* output array has four slots, initially (0, 0).
RECURSIVE PathsFrom(_, _, _, _)
PathsFrom(connections, a, used, out) ==
    IF a > 7 THEN out
    ELSE LET b == connections[a]
         IN IF a \in used \/ b \in used
            THEN PathsFrom(connections, a + 1, used, out)
            ELSE PathsFrom(connections, a + 1, used \cup {a, b}, Append(out, <<a, b>>))

\* Faulty variant of Tile::paths: the first four connectors, no marks kept.
paths_FirstFour(connections) ==
    [k \in 1..4 |-> <<k - 1, connections[k - 1]>>]

paths(connections) ==
    LET found == PathsFrom(connections, 0, {}, <<>>)
    IN [k \in 1..4 |-> IF k <= Len(found) THEN found[k] ELSE <<0, 0>>]

find_tile_with_connection(from, to) ==
    LET all == [k \in 0..(35 * 4 - 1) |-> rotated(ALL_TILES[k \div 4], k % 4)]
        first == CHOOSE k \in DOMAIN all :
                    /\ all[k][from] = to
                    /\ \A j \in DOMAIN all : j < k => all[j][from] # to
    IN all[first]

(***************************************************************************)
(* Geometry (board/marker.rs, board/marker/edge_index_to_position.rs)      *)
(***************************************************************************)

\* INDEX_TO_POSITION: the 48 border positions, walking the four sides.
INDEX_TO_POSITION ==
    [idx \in 0..(NumBorder - 1) |->
        LET side == idx \div 12
            k == idx % 12
            c == k + (k \div 2) + 1      \* the k-th value of 0..17 not divisible by 3
        IN CASE side = 0 -> <<c, 18>>
             [] side = 1 -> <<18, 18 - c>>
             [] side = 2 -> <<18 - c, 0>>
             [] OTHER -> <<0, c>>]

from_index(idx) == INDEX_TO_POSITION[idx]

\* Faulty variant of from_entry_point_index: the x offsets of entry points
\* 0|5 and 1|4 are exchanged.
from_entry_point_index_Swapped(position, entry_point) ==
    LET x == position[1]
        y == position[2]
        lattice_x == x * 3 + (CASE entry_point \in {6, 7} -> 0
                                [] entry_point \in {0, 5} -> 2
                                [] entry_point \in {1, 4} -> 1
                                [] entry_point \in {2, 3} -> 3)
        lattice_y == y * 3 + (CASE entry_point \in {4, 5} -> 0
                                [] entry_point \in {3, 6} -> 1
                                [] entry_point \in {2, 7} -> 2
                                [] entry_point \in {0, 1} -> 3)
    IN <<lattice_x, lattice_y>>

from_entry_point_index(position, entry_point) ==
    LET x == position[1]
        y == position[2]
        lattice_x == x * 3 + (CASE entry_point \in {6, 7} -> 0
                                [] entry_point \in {0, 5} -> 1
                                [] entry_point \in {1, 4} -> 2
                                [] entry_point \in {2, 3} -> 3)
        lattice_y == y * 3 + (CASE entry_point \in {4, 5} -> 0
                                [] entry_point \in {3, 6} -> 1
                                [] entry_point \in {2, 7} -> 2
                                [] entry_point \in {0, 1} -> 3)
    IN <<lattice_x, lattice_y>>

from_lattice_coordinates(position) == position

saturating_sub(a, b) == IF a - b < 0 THEN 0 ELSE a - b

\* MarkerPosition::entry_point_indices: the one or two (tile, entry point)
\* pairs of a position.  The source panics on coordinates that are no valid
\* position; those match no CASE arm here either.
entry_point_indices(coords) ==
    LET x == coords[1]
        y == coords[2]
    IN IF x = 18
       THEN LET local_y == y % 3
                entry_point == CASE local_y = 1 -> 3 [] local_y = 2 -> 2
            IN << <<<<5, y \div 3>>, entry_point>> >>
       ELSE IF y = 18
       THEN LET local_x == x % 3
                entry_point == CASE local_x = 1 -> 0 [] local_x = 2 -> 1
            IN << <<<<x \div 3, 5>>, entry_point>> >>
       ELSE LET tile_x == x \div 3
                tile_y == y \div 3
                local_x == x % 3
                local_y == y % 3
                entry_point == CASE local_x = 2 /\ local_y = 0 -> 4
                                 [] local_x = 1 /\ local_y = 0 -> 5
                                 [] local_x = 0 /\ local_y = 1 -> 6
                                 [] local_x = 0 /\ local_y = 2 -> 7
            IN IF x = 0 \/ y = 0
               THEN << <<<<tile_x, tile_y>>, entry_point>> >>
               ELSE LET adjacent_tile ==
                            CASE local_x = 0 -> <<saturating_sub(tile_x, 1), tile_y>>
                              [] local_y = 0 -> <<tile_x, saturating_sub(tile_y, 1)>>
                        adjacent_entry_point ==
                            CASE entry_point = 5 -> 0
                              [] entry_point = 4 -> 1
                              [] entry_point = 7 -> 2
                              [] entry_point = 6 -> 3
                    IN << <<<<tile_x, tile_y>>, entry_point>>,
                          <<adjacent_tile, adjacent_entry_point>> >>

\* MarkerPosition::entry_point_index_on, after the unzip of the pairs.  The
\* result is tagged: "Some" with the entry point, "None", or "Panic" for the
\* out-of-bounds index positions[1] the source takes when the position has a
\* single adjacent tile and pos is not that tile.
IndexAmong(pairs, pos) ==
    IF pos = pairs[1][1] THEN [tag |-> "Some", val |-> pairs[1][2]]
    ELSE IF Len(pairs) < 2 THEN [tag |-> "Panic", val |-> 0]
    ELSE IF pos = pairs[2][1] THEN [tag |-> "Some", val |-> pairs[2][2]]
    ELSE [tag |-> "None", val |-> 0]

entry_point_index_on(coords, pos) == IndexAmong(entry_point_indices(coords), pos)

\* MarkerPosition::adjacent_tiles, the map over the pairs.
PositionsOf(pairs) == [k \in 1..Len(pairs) |-> pairs[k][1]]

adjacent_tiles(coords) == PositionsOf(entry_point_indices(coords))

is_edge(coords) ==
    coords[1] = 0 \/ coords[1] = 18 \/ coords[2] = 0 \/ coords[2] = 18

\* The valid marker positions: exactly one lattice coordinate is a multiple of 3.
ValidPositions ==
    {c \in (0..LatticeMax) \X (0..LatticeMax) : (c[1] % 3 = 0) # (c[2] % 3 = 0)}

\* Faulty variant of node_id: the second family of positions is numbered
\* from 0 as well.
node_id_NoOffset(coords) ==
    LET x == coords[1]
        y == coords[2]
    IN IF x % 3 = 0
       THEN (x \div 3) * 12 + (y - 1 - (y \div 3))
       ELSE (y \div 3) * 12 + (x - 1 - (x \div 3))

\* MarkerPosition::node_id
node_id(coords) ==
    LET x == coords[1]
        y == coords[2]
    IN IF x % 3 = 0
       THEN (x \div 3) * 12 + (y - 1 - (y \div 3))
       ELSE (6 * 12 + 12) + (y \div 3) * 12 + (x - 1 - (x \div 3))

(***************************************************************************)
(* BoardGraph (board/graph.rs)                                             *)
(***************************************************************************)

NodeIds == 0..(NumNodes - 1)

\* Lexicographic order of the cartesian_product(0..19, 0..19) iteration.
LexLess(c, d) == c[1] < d[1] \/ (c[1] = d[1] /\ c[2] < d[2])

\* BoardGraph::new, first loop: vertices[node_id(pos)] = Some(pos) for every
\* valid position, a later position of the iteration overwriting an earlier.
NewVertices ==
    [id \in NodeIds |->
        LET here == {c \in ValidPositions : node_id(c) = id}
        IN IF here = {} THEN None
           ELSE Some(CHOOSE c \in here : \A d \in here : d = c \/ LexLess(d, c))]

\* The edges one adjacent tile contributes to a node: the seven other entry
\* points of that tile, in entry order, unbuilt.
RECURSIVE NewEdgesOn(_, _, _)
NewEdgesOn(tile_coord, idx, entry_idx) ==
    IF entry_idx > 7 THEN <<>>
    ELSE (IF entry_idx = idx THEN <<>>
          ELSE << <<node_id(from_entry_point_index(tile_coord, entry_idx)), FALSE>> >>)
         \o NewEdgesOn(tile_coord, idx, entry_idx + 1)

\* BoardGraph::new, second loop, for one node with its adjacent tiles.
NewAdjacencyOn(position, adj) ==
    LET on(k) == NewEdgesOn(adj[k], entry_point_index_on(position, adj[k]).val, 0)
    IN IF Len(adj) = 2 THEN on(1) \o on(2) ELSE on(1)

NewAdjacency(position) == NewAdjacencyOn(position, adjacent_tiles(position))

BoardGraphNew ==
    [vertices |-> NewVertices,
     adjacency_list |-> [id \in NodeIds |-> NewAdjacency(Unwrap(NewVertices[id]))]]

\* Vec::swap_remove at the 1-based index idx.
swap_remove(seq, idx) ==
    LET n == Len(seq)
    IN [k \in 1..(n - 1) |-> IF k = idx THEN seq[n] ELSE seq[k]]

\* Iterator::position on an adjacency list: the first 1-based index whose
\* node id is to_id, 0 when there is none.
PositionOf(list, to_id) ==
    LET hits == {k \in 1..Len(list) : list[k][1] = to_id}
    IN IF hits = {} THEN 0 ELSE CHOOSE k \in hits : \A j \in hits : k <= j

\* One direction of BoardGraph::remove_edge, with the index position() found
\* (0 for none: the expect panics).
RemoveAt(g, from_id, idx) ==
    IF idx = 0 THEN [g EXCEPT !.panic = TRUE]
    ELSE [g EXCEPT !.adjacency_list[from_id] = swap_remove(@, idx)]

\* One direction of BoardGraph::remove_edge.  g carries the adjacency list,
\* the vertices and a panic flag (the expect on a missing edge).
RemoveDirected(g, from_id, to_id) ==
    IF g.panic THEN g
    ELSE RemoveAt(g, from_id, PositionOf(g.adjacency_list[from_id], to_id))

\* BoardGraph::remove_edge
remove_edge(g, a, b) == RemoveDirected(RemoveDirected(g, a, b), b, a)

\* cartesian_product(0..8, 0..8) filtered by a < b, in iteration order.
AllConnections ==
    LET count(a) == 7 - a
        RECURSIVE Row(_, _)
        Row(a, b) == IF b > 7 THEN <<>> ELSE <<<<a, b>>>> \o Row(a, b + 1)
        RECURSIVE Rows(_)
        Rows(a) == IF a > 6 THEN <<>> ELSE Row(a, a + 1) \o Rows(a + 1)
    IN Rows(0)

\* Faulty variant of RemoveAcross: the edges across the tile are left in place.
RemoveAcross_KeepsEdges(g, tile_coords, k) == g

\* BoardGraph::place_tile, first loop: remove the edges across the tile.
\* RemoveRest goes on after one removal unless it panicked.
RECURSIVE RemoveAcross(_, _, _)
RemoveRest(removed, tile_coords, k) ==
    IF removed.panic THEN removed ELSE RemoveAcross(removed, tile_coords, k + 1)

RemoveAcross(g, tile_coords, k) ==
    IF k > Len(AllConnections) THEN g
    ELSE RemoveRest(
             remove_edge(g,
                         node_id(from_entry_point_index(tile_coords, AllConnections[k][1])),
                         node_id(from_entry_point_index(tile_coords, AllConnections[k][2]))),
             tile_coords, k)

\* BoardGraph::place_tile, inner loop body for the node id of one end of a
\* path: the path end it resolves to, and the graph after a passed-through
\* node is removed.
ResolveAt(g, id) ==
    LET path_end_id == IF Len(g.adjacency_list[id]) = 1
                       THEN g.adjacency_list[id][1][1]
                       ELSE id
    IN IF g.panic THEN [g |-> g, path_end |-> id]
       ELSE IF path_end_id # id
       THEN [g |-> remove_edge([g EXCEPT !.vertices[id] = None], path_end_id, id),
             path_end |-> path_end_id]
       ELSE [g |-> g, path_end |-> path_end_id]

ResolveEnd(g, tile_coords, entry_idx) ==
    ResolveAt(g, node_id(from_entry_point_index(tile_coords, entry_idx)))

\* Faulty variant of PushBoth: only the first of the two pushes is made.
PushBoth_OneWay(g, end0, end1) ==
    IF g.panic THEN g
    ELSE [g EXCEPT !.adjacency_list[end0] = Append(@, <<end1, TRUE>>)]

\* BoardGraph::place_tile, the two pushes that join the path ends.
PushBoth(g, end0, end1) ==
    IF g.panic THEN g
    ELSE LET pushed0 == [g EXCEPT !.adjacency_list[end0] = Append(@, <<end1, TRUE>>)]
         IN [pushed0 EXCEPT !.adjacency_list[end1] = Append(@, <<end0, TRUE>>)]

\* BoardGraph::place_tile, second loop body for one path of the tile: the
\* second end is resolved in the graph the first left.
ConnectSecond(r0, r1) == PushBoth(r1.g, r0.path_end, r1.path_end)

ConnectFirst(r0, tile_coords, entry_indices) ==
    ConnectSecond(r0, ResolveEnd(r0.g, tile_coords, entry_indices[2]))

ConnectPath(g, tile_coords, entry_indices) ==
    ConnectFirst(ResolveEnd(g, tile_coords, entry_indices[1]), tile_coords, entry_indices)

RECURSIVE ConnectPaths(_, _, _, _)
ConnectRest(connected, tile_coords, ps, k) ==
    IF connected.panic THEN connected
    ELSE ConnectPaths(connected, tile_coords, ps, k + 1)

ConnectPaths(g, tile_coords, ps, k) ==
    IF k > Len(ps) THEN g
    ELSE ConnectRest(ConnectPath(g, tile_coords, ps[k]), tile_coords, ps, k)

\* BoardGraph::place_tile; the result carries the panic flag of remove_edge.
graph_place_tile(graph, tile, tile_coords) ==
    ConnectPaths(RemoveAcross([vertices |-> graph.vertices,
                               adjacency_list |-> graph.adjacency_list,
                               panic |-> FALSE],
                              tile_coords, 1),
                 tile_coords, paths(tile), 1)

(***************************************************************************)
(* PathTracer (board.rs)                                                   *)
(***************************************************************************)

\* Faulty variant of PathStep: the walk stops after the first tile it crosses,
\* whatever lies beyond.
PathStep_StopsAfterOneTile(tiles, current_position, last_tile_coord, seen, adjacents) ==
    LET next_tile_coord == IF Len(adjacents) = 2 /\ last_tile_coord = adjacents[1]
                           THEN adjacents[2]
                           ELSE adjacents[1]
    IN IF next_tile_coord = last_tile_coord \/ IsNone(tiles[next_tile_coord])
       THEN [halts |-> TRUE, pos |-> current_position]
       ELSE [halts |-> TRUE,
             pos |-> from_entry_point_index(
                         next_tile_coord,
                         Unwrap(tiles[next_tile_coord])[
                             entry_point_index_on(current_position, next_tile_coord).val])]

\* Board::find_path_endpoint.  The loop of the source is deterministic in
\* (current_position, last_tile_coord), so it runs forever exactly when it
\* comes back to a pair it has been in; `seen` detects that, and the result
\* then has halts = FALSE.  PathStep is the loop body, given the adjacents.
RECURSIVE PathLoop(_, _, _, _)
PathStep(tiles, current_position, last_tile_coord, seen, adjacents) ==
    LET next_tile_coord == IF Len(adjacents) = 2 /\ last_tile_coord = adjacents[1]
                           THEN adjacents[2]
                           ELSE adjacents[1]
    IN IF <<current_position, last_tile_coord>> \in seen
       THEN [halts |-> FALSE, pos |-> current_position]
       ELSE IF next_tile_coord = last_tile_coord
       THEN [halts |-> TRUE, pos |-> current_position]
       ELSE IF IsNone(tiles[next_tile_coord])
       THEN [halts |-> TRUE, pos |-> current_position]
       ELSE PathLoop(tiles,
                     from_entry_point_index(
                         next_tile_coord,
                         Unwrap(tiles[next_tile_coord])[
                             entry_point_index_on(current_position, next_tile_coord).val]),
                     next_tile_coord,
                     seen \cup {<<current_position, last_tile_coord>>})

PathLoop(tiles, current_position, last_tile_coord, seen) ==
    PathStep(tiles, current_position, last_tile_coord, seen,
             adjacent_tiles(current_position))

find_path_endpoint(tiles, location, exit) ==
    PathLoop(tiles, from_entry_point_index(location, exit), location, {})

(***************************************************************************)
(* Board (board.rs)                                                        *)
(***************************************************************************)

Marker(position, previous_tile, has_moved) ==
    [position |-> position, previous_tile |-> previous_tile, has_moved |-> has_moved]

\* Board::new
BoardNewMarkers == <<>>

BoardNewTiles == [c \in TileCoords |-> None]

\* Vec::contains on the marker list.
Contains(markers, marker) == \E k \in 1..Len(markers) : markers[k] = marker

\* Faulty variant of place_marker: the position is not checked for a marker
\* already on it.
place_marker_NoContains(markers, position_index) ==
    [markers |-> Append(markers, Some(Marker(from_index(position_index), None, FALSE))),
     ret |-> TRUE]

\* Faulty variant of place_marker: a new marker takes the first null slot of
\* the list when there is one.
place_marker_RefillsNull(markers, position_index) ==
    LET marker == Some(Marker(from_index(position_index), None, FALSE))
        nulls == {k \in 1..Len(markers) : IsNone(markers[k])}
    IN IF Contains(markers, marker)
       THEN [markers |-> markers, ret |-> FALSE]
       ELSE IF nulls # {}
       THEN [markers |-> [markers EXCEPT ![CHOOSE k \in nulls : \A j \in nulls : k <= j] = marker],
             ret |-> TRUE]
       ELSE [markers |-> Append(markers, marker), ret |-> TRUE]

\* Faulty variant of place_marker: the new marker is compared with the last
\* marker of the list only.
place_marker_LastOnly(markers, position_index) ==
    LET marker == Some(Marker(from_index(position_index), None, FALSE))
    IN IF markers # <<>> /\ markers[Len(markers)] = marker
       THEN [markers |-> markers, ret |-> FALSE]
       ELSE [markers |-> Append(markers, marker), ret |-> TRUE]

\* Board::place_marker: the new marker list and the returned flag.
place_marker(markers, position_index) ==
    LET marker == Some(Marker(from_index(position_index), None, FALSE))
    IN IF Contains(markers, marker)
       THEN [markers |-> markers, ret |-> FALSE]
       ELSE [markers |-> Append(markers, marker), ret |-> TRUE]

\* Board::next_tile_of_player for an active marker, given its adjacents.
NextTileOf(marker, adjacents) ==
    IF IsSome(marker.previous_tile)
    THEN IF Len(adjacents) # 2
         THEN [panic |-> TRUE, coord |-> <<0, 0>>]
         ELSE IF adjacents[1] = Unwrap(marker.previous_tile)
         THEN [panic |-> FALSE, coord |-> adjacents[2]]
         ELSE [panic |-> FALSE, coord |-> adjacents[1]]
    ELSE IF ~is_edge(marker.position)
         THEN [panic |-> TRUE, coord |-> <<0, 0>>]
         ELSE [panic |-> FALSE, coord |-> adjacents[1]]

\* Board::next_tile_of_player.  panic is TRUE for an index past the marker
\* list, the expect on an eliminated player and the two assertions.
next_tile_of_player(markers, player) ==
    IF player >= Len(markers) \/ IsNone(markers[player + 1])
    THEN [panic |-> TRUE, coord |-> <<0, 0>>]
    ELSE NextTileOf(Unwrap(markers[player + 1]),
                    adjacent_tiles(Unwrap(markers[player + 1]).position))

\* Board::place_tile from the call of BoardGraph::place_tile on: a panic
\* inside it leaves the graph as far as it got and the grid unwritten.
PlaceOnGraph(tiles, tile, coord, g) ==
    [tiles |-> IF g.panic THEN tiles ELSE [tiles EXCEPT ![coord] = Some(tile)],
     graph |-> [vertices |-> g.vertices, adjacency_list |-> g.adjacency_list],
     outcome |-> IF g.panic THEN "panic" ELSE "ok"]

\* Faulty variant of PlaceAt: the slot is not asserted to be empty.
PlaceAt_NoAssert(tiles, graph, tile, next) ==
    IF next.panic
    THEN [tiles |-> tiles, graph |-> graph, outcome |-> "panic"]
    ELSE PlaceOnGraph(tiles, tile, next.coord, graph_place_tile(graph, tile, next.coord))

\* Board::place_tile on the slot next_tile_of_player gave; the assertion on
\* the slot precedes both writes.
PlaceAt(tiles, graph, tile, next) ==
    IF next.panic \/ IsSome(tiles[next.coord])
    THEN [tiles |-> tiles, graph |-> graph, outcome |-> "panic"]
    ELSE PlaceOnGraph(tiles, tile, next.coord, graph_place_tile(graph, tile, next.coord))

\* Board::place_tile: the grid and graph after the call and how it ended.
place_tile(tiles, graph, markers, tile, player) ==
    PlaceAt(tiles, graph, tile, next_tile_of_player(markers, player))

\* Iterator::position over the marker positions: the first player (0-based)
\* whose active marker is on pos, None when there is none.
PlayerAt(markers, pos) ==
    LET hits == {k \in 1..Len(markers) :
                    IsSome(markers[k]) /\ Unwrap(markers[k]).position = pos}
    IN IF hits = {} THEN None
       ELSE Some((CHOOSE k \in hits : \A j \in hits : k <= j) - 1)

\* sort_unstable on a vector of player indices (insertion sort).
RECURSIVE Insert(_, _)
Insert(sorted, v) ==
    IF sorted = <<>> THEN <<v>>
    ELSE IF v <= Head(sorted) THEN <<v>> \o sorted
    ELSE <<Head(sorted)>> \o Insert(Tail(sorted), v)

RECURSIVE sort_unstable(_)
sort_unstable(seq) ==
    IF seq = <<>> THEN <<>> ELSE Insert(sort_unstable(Tail(seq)), Head(seq))

\* Vec::dedup: drops an element equal to the one before it.
RECURSIVE dedup(_)
dedup(seq) ==
    IF Len(seq) < 2 THEN seq
    ELSE IF seq[1] = seq[2] THEN dedup(Tail(seq))
    ELSE <<seq[1]>> \o dedup(Tail(seq))

\* Board::find_collisions, the loop over the tile's paths.
RECURSIVE CollisionsFrom(_, _, _, _)
CollisionsFrom(markers, positions, ps, k) ==
    IF k > Len(ps) THEN <<>>
    ELSE LET player_a == PlayerAt(markers, positions[ps[k][1]])
             player_b == PlayerAt(markers, positions[ps[k][2]])
         IN (IF IsSome(player_a) /\ IsSome(player_b)
             THEN <<Unwrap(player_a), Unwrap(player_b)>>
             ELSE <<>>)
            \o CollisionsFrom(markers, positions, ps, k + 1)

\* Board::find_collisions
find_collisions(markers, tile, position) ==
    LET positions == [idx \in EntryPoints |-> from_entry_point_index(position, idx)]
    IN dedup(sort_unstable(CollisionsFrom(markers, positions, paths(tile), 1)))

\* Board::find_player_path_end, its result for the traced path r.
PathEndResult(marker, r) ==
    [outcome |-> IF r.halts THEN "ok" ELSE "hang",
     end |-> r.pos,
     is_different |-> r.pos # marker.position]

\* Board::find_player_path_end for a marker still on the border, xy its
\* next tile.
BorderPathEnd(tiles, marker, xy) ==
    IF IsNone(tiles[xy])
    THEN [outcome |-> "ok", end |-> marker.position, is_different |-> FALSE]
    ELSE PathEndResult(
             marker,
             find_path_endpoint(
                 tiles, xy,
                 Unwrap(tiles[xy])[entry_point_index_on(marker.position, xy).val]))

\* Board::find_player_path_end for a marker that has moved, on the entry
\* point its position has on its previous tile.
MovedPathEnd(tiles, marker, coords, on) ==
    IF on.tag # "Some"
    THEN [outcome |-> "panic", end |-> marker.position, is_different |-> FALSE]
    ELSE PathEndResult(marker, find_path_endpoint(tiles, coords, on.val))

PathEndOf(tiles, marker) ==
    IF IsNone(marker.previous_tile)
    THEN IF ~is_edge(marker.position)
         THEN [outcome |-> "panic", end |-> marker.position, is_different |-> FALSE]
         ELSE BorderPathEnd(tiles, marker, adjacent_tiles(marker.position)[1])
    ELSE MovedPathEnd(tiles, marker, Unwrap(marker.previous_tile),
                      entry_point_index_on(marker.position, Unwrap(marker.previous_tile)))

\* Board::find_player_path_end for an active player: the end of the path,
\* whether it differs from the marker's position, and how the call ended
\* ("ok", "panic" for the assertion, "hang" for a path that never ends).
find_player_path_end(markers, tiles, player) ==
    PathEndOf(tiles, Unwrap(markers[player + 1]))

\* Faulty variant of MoveInside: the tile recorded as previous is the empty
\* slot ahead of the marker, not the tile it came through.
MoveInside_PreviousAhead(acc, tiles, player, new_pos, adj) ==
    LET prev_tile_pos == IF IsNone(tiles[adj[1]]) THEN adj[2] ELSE adj[1]
    IN IF Len(adj) # 2 \/ IsNone(tiles[prev_tile_pos])
       THEN [acc EXCEPT !.outcome = "panic"]
       ELSE [acc EXCEPT !.markers[player + 1] =
                 Some(Marker(new_pos,
                             Some(IF prev_tile_pos = adj[1] THEN adj[2] ELSE adj[1]),
                             TRUE))]

\* Faulty variant of MoveInside: the marker moves on and keeps the previous
\* tile it had.
MoveInside_KeepsPrevious(acc, tiles, player, new_pos, adj) ==
    LET prev_tile_pos == IF IsNone(tiles[adj[1]]) THEN adj[2] ELSE adj[1]
    IN IF Len(adj) # 2 \/ IsNone(tiles[prev_tile_pos])
       THEN [acc EXCEPT !.outcome = "panic"]
       ELSE [acc EXCEPT !.markers[player + 1] =
                 Some(Marker(new_pos, Unwrap(@).previous_tile, TRUE))]

\* Board::move_markers, the move of a marker to a position inside the
\* board, adj its adjacent tiles.
MoveInside(acc, tiles, player, new_pos, adj) ==
    LET prev_tile_pos == IF IsNone(tiles[adj[1]]) THEN adj[2] ELSE adj[1]
    IN IF Len(adj) # 2 \/ IsNone(tiles[prev_tile_pos])
       THEN [acc EXCEPT !.outcome = "panic"]
       ELSE [acc EXCEPT !.markers[player + 1] =
                 Some(Marker(new_pos, Some(prev_tile_pos), TRUE))]

\* Faulty variant of MoveTo: a marker whose path ends on the board edge is
\* moved there as well as reported.
MoveTo_MovesEliminated(acc, tiles, player, r) ==
    IF r.outcome # "ok" THEN [acc EXCEPT !.outcome = r.outcome]
    ELSE IF ~r.is_different THEN acc
    ELSE IF is_edge(r.end)
    THEN [acc EXCEPT !.eliminated = Append(@, player),
                     !.markers[player + 1] =
                         Some(Marker(r.end, Unwrap(acc.markers[player + 1]).previous_tile, TRUE))]
    ELSE MoveInside(acc, tiles, player, r.end, adjacent_tiles(r.end))

\* Faulty variant of MoveTo: a marker whose path ends where it stands is
\* marked as moved.
MoveTo_MarksWaiting(acc, tiles, player, r) ==
    IF r.outcome # "ok" THEN [acc EXCEPT !.outcome = r.outcome]
    ELSE IF ~r.is_different
    THEN [acc EXCEPT !.markers[player + 1] =
              Some(Marker(Unwrap(@).position, Unwrap(@).previous_tile, TRUE))]
    ELSE IF is_edge(r.end)
    THEN [acc EXCEPT !.eliminated = Append(@, player)]
    ELSE MoveInside(acc, tiles, player, r.end, adjacent_tiles(r.end))

\* Board::move_markers, the loop body after find_player_path_end returned r.
MoveTo(acc, tiles, player, r) ==
    IF r.outcome # "ok" THEN [acc EXCEPT !.outcome = r.outcome]
    ELSE IF ~r.is_different THEN acc
    ELSE IF is_edge(r.end)
    THEN [acc EXCEPT !.eliminated = Append(@, player)]
    ELSE MoveInside(acc, tiles, player, r.end, adjacent_tiles(r.end))

\* Board::move_markers, the loop body for one player; acc carries the marker
\* list, the eliminated list and how the call has gone so far.
MoveOne(acc, tiles, player) ==
    IF acc.outcome # "ok" \/ IsNone(acc.markers[player + 1]) THEN acc
    ELSE MoveTo(acc, tiles, player, find_player_path_end(acc.markers, tiles, player))

RECURSIVE MoveFrom(_, _, _)
MoveRest(moved, tiles, player) ==
    IF moved.outcome # "ok" THEN moved
    ELSE MoveFrom(moved, tiles, player + 1)

MoveFrom(acc, tiles, player) ==
    IF player >= Len(acc.markers) THEN acc
    ELSE MoveRest(MoveOne(acc, tiles, player), tiles, player)

\* Board::move_markers
move_markers(markers, tiles) ==
    MoveFrom([markers |-> markers, eliminated |-> <<>>, outcome |-> "ok"], tiles, 0)

\* Faulty variant of nonterminal_positions: the path ends on no position of
\* the candidate slot, its border positions included.
nonterminal_positions_WholeSlot(tiles, tile_pos) ==
    {from_entry_point_index(tile_pos, e) : e \in EntryPoints}

\* Board::move_is_suicide, the positions of the candidate slot where the
\* path does not end.
nonterminal_positions(tiles, tile_pos) ==
    {position \in {from_entry_point_index(tile_pos, e) : e \in EntryPoints} :
        LET adjacents == adjacent_tiles(position)
        IN /\ Len(adjacents) = 2
           /\ \A k \in 1..2 : IsSome(tiles[adjacents[k]]) \/ adjacents[k] = tile_pos}

\* Faulty variant of SuicideLoop: the walk stops after crossing the candidate
\* tile once, even where the path comes back into its slot.
SuicideLoop_OneCrossing(tiles, tile, tile_pos, current_position, seen) ==
    LET on == entry_point_index_on(current_position, tile_pos)
        exit_point == tile[on.val]
        r == find_path_endpoint(tiles, tile_pos, exit_point)
    IN IF on.tag # "Some"
       THEN [outcome |-> "panic", end |-> current_position, crossings |-> 0]
       ELSE IF ~r.halts
       THEN [outcome |-> "hang", end |-> current_position, crossings |-> 1]
       ELSE [outcome |-> "ok", end |-> r.pos, crossings |-> 1]

\* Board::move_is_suicide, its loop.  It is deterministic in
\* current_position, so it never ends exactly when a position repeats.
\* seen holds the positions the loop body has started from, and crossings
\* is the number of times the body has run when the loop is left.
RECURSIVE SuicideLoop(_, _, _, _, _)
SuicideLoop(tiles, tile, tile_pos, current_position, seen) ==
    LET on == entry_point_index_on(current_position, tile_pos)
        exit_point == tile[on.val]
        r == find_path_endpoint(tiles, tile_pos, exit_point)
        crossings == Cardinality(seen) + 1
    IN IF current_position \in seen
       THEN [outcome |-> "hang", end |-> current_position, crossings |-> crossings]
       ELSE IF on.tag # "Some"
       THEN [outcome |-> "panic", end |-> current_position, crossings |-> crossings - 1]
       ELSE IF ~r.halts
       THEN [outcome |-> "hang", end |-> current_position, crossings |-> crossings]
       ELSE IF r.pos \notin nonterminal_positions(tiles, tile_pos)
       THEN [outcome |-> "ok", end |-> r.pos, crossings |-> crossings]
       ELSE SuicideLoop(tiles, tile, tile_pos, r.pos, seen \cup {current_position})

\* Board::move_is_suicide
move_is_suicide(markers, tiles, tile, active_player) ==
    LET next == next_tile_of_player(markers, active_player)
        tile_pos == next.coord
        marker == Unwrap(markers[active_player + 1])
        walk == SuicideLoop(tiles, tile, tile_pos, marker.position, {})
        colliders == find_collisions(markers, tile, tile_pos)
    IN IF next.panic THEN [outcome |-> "panic", ret |-> FALSE, crossings |-> 0]
       ELSE IF walk.outcome # "ok"
       THEN [outcome |-> walk.outcome, ret |-> FALSE, crossings |-> walk.crossings]
       ELSE [outcome |-> "ok",
             ret |-> is_edge(walk.end)
                     \/ \E k \in 1..Len(colliders) : colliders[k] = active_player,
             crossings |-> walk.crossings]

\* Board::eliminate_player
eliminate_player(markers, player) == [markers EXCEPT ![player + 1] = None]

(***************************************************************************)
(* The board as a state machine: the calls a user of Board can make.       *)
(***************************************************************************)

VARIABLES markers, tiles, graph, call, env

vars == <<markers, tiles, graph, call, env>>

\* The value of env while a Board is used on its own, outside a TsuroEnv.
NoEnv == <<>>

MaxPlayers == 3

MaxTiles == 3

NumTileKinds == 2

\* The border indices markers are placed on: the corner slot (0, 0) and the
\* two slots next to it.
MarkerIndices == {32, 34, 35}

\* The tiles offered to place_tile: every rotation of the first catalog tiles.
TileSet == {rotated(ALL_TILES[i], r) : i \in 0..(NumTileKinds - 1), r \in 0..3}

NumPlaced == Cardinality({c \in TileCoords : IsSome(tiles[c])})

Players == 0..(Len(markers) - 1)

Running == call.outcome = "ok"

Init ==
    /\ markers = BoardNewMarkers
    /\ tiles = BoardNewTiles
    /\ graph = BoardGraphNew
    /\ call = [op |-> "new", outcome |-> "ok"]
    /\ env = NoEnv

PlaceMarker(position_index) ==
    /\ Running
    /\ Len(markers) < MaxPlayers
    /\ LET r == place_marker(markers, position_index)
       IN /\ markers' = r.markers
          /\ call' = [op |-> "place_marker", position_index |-> position_index,
                      ret |-> r.ret, outcome |-> "ok"]
    /\ UNCHANGED <<tiles, graph, env>>

PlaceTile(tile, player) ==
    /\ Running
    /\ NumPlaced < MaxTiles
    /\ LET r == place_tile(tiles, graph, markers, tile, player)
       IN /\ tiles' = r.tiles
          /\ graph' = r.graph
          /\ call' = [op |-> "place_tile", tile |-> tile, player |-> player,
                      outcome |-> r.outcome]
    /\ UNCHANGED <<markers, env>>

MoveMarkers ==
    /\ Running
    /\ LET r == move_markers(markers, tiles)
       IN /\ markers' = r.markers
          /\ call' = [op |-> "move_markers", ret |-> r.eliminated, outcome |-> r.outcome]
    /\ UNCHANGED <<tiles, graph, env>>

EliminatePlayer(player) ==
    /\ Running
    /\ markers' = eliminate_player(markers, player)
    /\ call' = [op |-> "eliminate_player", player |-> player, outcome |-> "ok"]
    /\ UNCHANGED <<tiles, graph, env>>

Next ==
    \/ \E position_index \in MarkerIndices : PlaceMarker(position_index)
    \/ \E tile \in TileSet, player \in Players : PlaceTile(tile, player)
    \/ MoveMarkers
    \/ \E player \in Players : EliminatePlayer(player)

Spec == Init /\ [][Next]_vars

TypeOK ==
    /\ Len(markers) <= MaxPlayers
    /\ NumPlaced <= MaxTiles
    /\ call.outcome \in {"ok", "panic", "hang"}

(***************************************************************************)
(* Properties of the board operations                                      *)
(***************************************************************************)

InList(list, v) == \E k \in 1..Len(list) : list[k] = v

Active(p) == p \in Players /\ IsSome(markers[p + 1])

\* The tile slot player p enters next exists and is empty.
NextSlotEmpty(p) ==
    /\ Active(p)
    /\ ~next_tile_of_player(markers, p).panic
    /\ IsNone(tiles[next_tile_of_player(markers, p).coord])

\* What a completed move_markers call owes player p, from the state before
\* (markers, tiles) to the marker after and the returned list.
MovedAsTraced(p, after, ret) ==
    IF IsNone(markers[p + 1])
    THEN after = None /\ ~InList(ret, p)
    ELSE LET e == find_player_path_end(markers, tiles, p)
         IN IF ~e.is_different
            THEN after = markers[p + 1] /\ ~InList(ret, p)
            ELSE IF is_edge(e.end)
            THEN after = markers[p + 1] /\ InList(ret, p)
            ELSE /\ IsSome(after)
                 /\ Unwrap(after).position = e.end
                 /\ Unwrap(after).has_moved
                 /\ IsSome(Unwrap(after).previous_tile)
                 /\ LET prev == Unwrap(Unwrap(after).previous_tile)
                        adj == adjacent_tiles(e.end)
                    IN /\ Len(adj) = 2
                       /\ prev \in {adj[1], adj[2]}
                       /\ IsSome(tiles[prev])
                       /\ \A k \in 1..2 : adj[k] # prev => IsNone(tiles[adj[k]])
                 /\ ~InList(ret, p)

\* C1: a completed move_markers call leaves a null marker and a marker whose
\* path ends where it stands unchanged and unreported, reports a marker whose
\* path ends on the board edge and leaves it as it was, and moves every other
\* marker to the end of its path, with previous_tile the occupied one of the
\* two tiles adjacent to it and has_moved set, unreported.
C1_MoveMarkersContract ==
    [][(call'.op = "move_markers" /\ call'.outcome = "ok")
         => /\ Len(markers') = Len(markers)
            /\ \A p \in Players : MovedAsTraced(p, markers'[p + 1], call'.ret)]_vars

\* C1 witness: a move_markers call has returned a player that reached the
\* edge while another marker stands moved inside the board, one is still on
\* its border position and one is null.
C1_Witness ==
    /\ call.op = "move_markers"
    /\ call.outcome = "ok"
    /\ Len(call.ret) > 0
    /\ \E p \in Players : Active(p) /\ Unwrap(markers[p + 1]).has_moved
    /\ \E p \in Players : Active(p) /\ ~Unwrap(markers[p + 1]).has_moved
    /\ \E p \in Players : ~Active(p)

\* Whether committing tile for player p eliminates p: p collides on the slot,
\* or place_tile followed by move_markers reports p.
CommitEliminates(tile, p) ==
    LET slot == next_tile_of_player(markers, p).coord
        placed == place_tile(tiles, graph, markers, tile, p)
        moved == move_markers(markers, placed.tiles)
    IN \/ InList(find_collisions(markers, tile, slot), p)
       \/ /\ placed.outcome = "ok"
          /\ moved.outcome = "ok"
          /\ InList(moved.eliminated, p)

\* C2: for an active player whose next slot is empty, move_is_suicide answers
\* true exactly when committing the tile would eliminate that player.
C2_SuicideIffEliminated ==
    \A p \in Players : \A tile \in TileSet :
        NextSlotEmpty(p) =>
            LET s == move_is_suicide(markers, tiles, tile, p)
            IN s.outcome = "ok" /\ (s.ret <=> CommitEliminates(tile, p))

\* C2 witness: a player who has moved inside the board has, for its empty
\* next slot, both a tile that is suicide without any collision and a tile
\* that is not suicide.
C2_Witness ==
    \E p \in Players :
        /\ NextSlotEmpty(p)
        /\ Unwrap(markers[p + 1]).has_moved
        /\ \E tile \in TileSet :
              /\ move_is_suicide(markers, tiles, tile, p).ret
              /\ ~InList(find_collisions(markers, tile,
                                         next_tile_of_player(markers, p).coord), p)
        /\ \E tile \in TileSet : ~move_is_suicide(markers, tiles, tile, p).ret

\* The players that collide on the slot at position when tile lies there:
\* an active marker on an entry point e, another active marker on the entry
\* point the tile connects e to.
Colliders(tile, position) ==
    {p \in Players :
        /\ Active(p)
        /\ \E e \in EntryPoints :
              /\ Unwrap(markers[p + 1]).position = from_entry_point_index(position, e)
              /\ \E q \in Players :
                    /\ q # p
                    /\ Active(q)
                    /\ Unwrap(markers[q + 1]).position =
                           from_entry_point_index(position, tile[e])}

IsAscending(list) == \A k \in 1..(Len(list) - 1) : list[k] < list[k + 1]

\* C3: find_collisions returns, ascending and without duplicates, exactly the
\* players whose active marker is on an entry point of the slot that the tile
\* connects to an entry point holding another active marker.
C3_CollisionsExact ==
    \A tile \in TileSet : \A position \in TileCoords :
        LET found == find_collisions(markers, tile, position)
        IN /\ IsAscending(found)
           /\ {found[k] : k \in 1..Len(found)} = Colliders(tile, position)

\* C4: place_marker on a border position an active marker already holds
\* returns false and changes nothing; otherwise it appends one unmoved marker
\* on that position, changes nothing else, and returns true.
C4_PlaceMarkerContract ==
    [][call'.op = "place_marker"
         => LET pos == from_index(call'.position_index)
                taken == \E p \in Players :
                            Active(p) /\ Unwrap(markers[p + 1]).position = pos
            IN /\ call'.ret = ~taken
               /\ tiles' = tiles
               /\ graph' = graph
               /\ markers' = IF taken THEN markers
                             ELSE Append(markers, Some(Marker(pos, None, FALSE)))]_vars

\* C4 witness: place_marker has been refused on a claimed border position
\* while another marker is already inside the board.
C4_Witness ==
    /\ call.op = "place_marker"
    /\ ~call.ret
    /\ \E p \in Players : Active(p) /\ Unwrap(markers[p + 1]).has_moved

\* C5: place_tile writes the tile into the player's next slot when that slot
\* is empty; on an occupied slot it aborts with grid and graph unchanged; and
\* no step ever changes or empties a cell that is set.
C5_PlaceTileOnce ==
    [][/\ \A c \in TileCoords : IsSome(tiles[c]) => tiles'[c] = tiles[c]
       /\ call'.op = "place_tile"
            => LET next == next_tile_of_player(markers, call'.player)
               IN IF next.panic
                  THEN call'.outcome = "panic" /\ tiles' = tiles /\ graph' = graph
                  ELSE IF IsSome(tiles[next.coord])
                  THEN call'.outcome = "panic" /\ tiles' = tiles /\ graph' = graph
                  ELSE call'.outcome = "ok"
                         => tiles' = [tiles EXCEPT ![next.coord] = Some(call'.tile)]]_vars

\* C5 witness: place_tile for an active player has aborted on an occupied slot.
C5_Witness ==
    /\ call.op = "place_tile"
    /\ call.outcome = "panic"
    /\ Active(call.player)
    /\ ~next_tile_of_player(markers, call.player).panic
    /\ IsSome(tiles[next_tile_of_player(markers, call.player).coord])

\* C6: a null marker stays null through every call, and eliminate_player
\* changes nothing but the one marker it sets to null.
C6_EliminationIrreversible ==
    [][/\ \A p \in Players : IsNone(markers[p + 1]) => IsNone(markers'[p + 1])
       /\ call'.op = "eliminate_player"
            => /\ markers' = [markers EXCEPT ![call'.player + 1] = None]
               /\ tiles' = tiles
               /\ graph' = graph]_vars

\* C6 witness: place_marker has succeeded after a player was eliminated, and
\* the eliminated player's slot is still null.
C6_Witness ==
    /\ call.op = "place_marker"
    /\ call.ret
    /\ \E p \in Players : p + 1 < Len(markers) /\ ~Active(p)

\* A marker that has never moved and whose border slot is still empty.
Waiting(p) ==
    /\ Active(p)
    /\ ~Unwrap(markers[p + 1]).has_moved
    /\ IsNone(tiles[adjacent_tiles(Unwrap(markers[p + 1]).position)[1]])

\* C7: move_markers leaves a marker that has never moved and whose border
\* slot is empty exactly as it was, and does not report it.
C7_WaitingMarkerStays ==
    [][(call'.op = "move_markers" /\ call'.outcome = "ok")
         => \A p \in Players :
               Waiting(p) => markers'[p + 1] = markers[p + 1] /\ ~InList(call'.ret, p)]_vars

\* C7 witness: after a move_markers call that moved another marker over a
\* placed tile, a marker still waits unmoved on its border position.
C7_Witness ==
    /\ call.op = "move_markers"
    /\ call.outcome = "ok"
    /\ NumPlaced > 0
    /\ \E p \in Players : Waiting(p) /\ Unwrap(markers[p + 1]).previous_tile = None
    /\ \E p \in Players : Active(p) /\ Unwrap(markers[p + 1]).has_moved

(***************************************************************************)
(* find_path_endpoint on its own: a grid set directly, as test_path_end_of *)
(* sets Board.tiles, and calls with any start.                             *)
(***************************************************************************)

\* The slots of the corner block the grids fill and the starts lie on.
PathSlots == {<<0, 0>>, <<1, 0>>, <<0, 1>>, <<1, 1>>}

\* The tiles the grids are filled with.
PathTiles == {ALL_TILES[0], ALL_TILES[1], ALL_TILES[4]}

PathGrids ==
    {[c \in TileCoords |-> IF c \in PathSlots THEN f[c] ELSE None] :
        f \in [PathSlots -> {None} \cup {Some(t) : t \in PathTiles}]}

InitPath ==
    /\ markers = BoardNewMarkers
    /\ tiles \in PathGrids
    /\ graph = BoardGraphNew
    /\ call = [op |-> "new", outcome |-> "ok"]
    /\ env = NoEnv

FindPathEndpoint(location, exit) ==
    /\ Running
    /\ LET r == find_path_endpoint(tiles, location, exit)
       IN call' = [op |-> "find_path_endpoint", location |-> location, exit |-> exit,
                   ret |-> r.pos, outcome |-> IF r.halts THEN "ok" ELSE "hang"]
    /\ UNCHANGED <<markers, tiles, graph, env>>

NextPath == \E location \in PathSlots, exit \in EntryPoints : FindPathEndpoint(location, exit)

SpecPath == InitPath /\ [][NextPath]_vars

\* A position where a path stops: on the board edge, or next to an empty slot.
EdgeOrOpen(pos) ==
    \/ is_edge(pos)
    \/ \E k \in 1..Len(adjacent_tiles(pos)) : IsNone(tiles[adjacent_tiles(pos)[k]])

\* C8: every find_path_endpoint call terminates and returns a board-edge
\* position or a position adjacent to an empty tile slot.
C8_AlwaysTerminates ==
    call.op = "find_path_endpoint" => call.outcome = "ok" /\ EdgeOrOpen(call.ret)

\* How far find_path_endpoint keeps to C8: a call that terminates returns a
\* board-edge position or a position adjacent to an empty tile slot, and a
\* call fails to terminate only on a closed loop: the start slot is placed
\* and the path is back on the start position, with both slots adjacent to
\* it placed.
PathEndsOffLoops ==
    call.op = "find_path_endpoint" =>
        LET start == from_entry_point_index(call.location, call.exit)
        IN IF call.outcome = "ok"
           THEN EdgeOrOpen(call.ret)
           ELSE /\ call.outcome = "hang"
                /\ call.ret = start
                /\ IsSome(tiles[call.location])
                /\ ~EdgeOrOpen(start)

\* A call has returned a position on another slot than the start slot, after
\* crossing placed tiles.
PathCrossesTiles ==
    /\ call.op = "find_path_endpoint"
    /\ call.outcome = "ok"
    /\ call.ret # from_entry_point_index(call.location, call.exit)
    /\ \A k \in 1..Len(adjacent_tiles(call.ret)) :
          adjacent_tiles(call.ret)[k] # call.location

\* A call has run forever on a closed loop of placed tiles.
PathRunsForever ==
    /\ call.op = "find_path_endpoint"
    /\ call.outcome = "hang"

(***************************************************************************)
(* BoardGraph on its own: place_tile called slot by slot on the empty      *)
(* board, as test_graph calls it; tiles records what has been placed.      *)
(***************************************************************************)

\* The slots tiles are placed on.
GraphSlots == {<<0, 0>>, <<1, 0>>, <<0, 1>>, <<1, 1>>}

\* The tiles placed.
GraphTiles == {ALL_TILES[0], ALL_TILES[1], ALL_TILES[4], rotated(ALL_TILES[5], 1)}

InitGraph ==
    /\ markers = BoardNewMarkers
    /\ tiles = BoardNewTiles
    /\ graph = BoardGraphNew
    /\ call = [op |-> "new", outcome |-> "ok"]
    /\ env = NoEnv

GraphPlaceTile(tile, tile_coords) ==
    /\ Running
    /\ IsNone(tiles[tile_coords])
    /\ LET g == graph_place_tile(graph, tile, tile_coords)
       IN /\ graph' = [vertices |-> g.vertices, adjacency_list |-> g.adjacency_list]
          /\ tiles' = IF g.panic THEN tiles ELSE [tiles EXCEPT ![tile_coords] = Some(tile)]
          /\ call' = [op |-> "graph_place_tile", tile |-> tile, tile_coords |-> tile_coords,
                      outcome |-> IF g.panic THEN "panic" ELSE "ok"]
    /\ UNCHANGED <<markers, env>>

NextGraph == \E tile \in GraphTiles, tile_coords \in GraphSlots : GraphPlaceTile(tile, tile_coords)

SpecGraph == InitGraph /\ [][NextGraph]_vars

\* The number of entries (to_id, built) in node u's adjacency list.
EdgeCount(u, to_id, built) ==
    Cardinality({k \in 1..Len(graph.adjacency_list[u]) :
                    graph.adjacency_list[u][k] = <<to_id, built>>})

BuiltEdges(u) ==
    {k \in 1..Len(graph.adjacency_list[u]) : graph.adjacency_list[u][k][2]}

\* The slots adjacent to each position, as a set.
SlotsAt ==
    [pos \in ValidPositions |->
        {adjacent_tiles(pos)[k] : k \in 1..Len(adjacent_tiles(pos))}]

AdjacentSlots(pos) == SlotsAt[pos]

\* The nodes of the eight entry points of each slot.
EntryNodes ==
    [slot \in TileCoords |->
        {node_id(from_entry_point_index(slot, e)) : e \in EntryPoints}]

\* Where the path that leaves position pos through the placed tile on slot
\* ends, following placed tiles.
PathEndThrough(pos, slot) ==
    find_path_endpoint(tiles, slot,
                       Unwrap(tiles[slot])[entry_point_index_on(pos, slot).val])

\* C9 as claimed: a non-null node with a placed adjacent tile has exactly one
\* built edge, to the node where the path from it through the placed tiles
\* ends; a non-null node with no placed adjacent tile has no built edge.
C9_BuiltEdgesFollowPaths ==
    \A u \in NodeIds :
        IsSome(graph.vertices[u]) =>
            LET pos == Unwrap(graph.vertices[u])
                placed == {slot \in AdjacentSlots(pos) : IsSome(tiles[slot])}
            IN IF placed = {}
               THEN BuiltEdges(u) = {}
               ELSE /\ Cardinality(BuiltEdges(u)) = 1
                    /\ \E slot \in placed :
                          /\ PathEndThrough(pos, slot).halts
                          /\ \A k \in BuiltEdges(u) :
                                graph.adjacency_list[u][k][1] =
                                    node_id(PathEndThrough(pos, slot).pos)

\* Every non-null node has its unbuilt edges to exactly the seven other entry
\* points of each adjacent slot that is still empty, once per such slot.
UnbuiltMatchEmptySlots ==
    \A u \in NodeIds :
        IsSome(graph.vertices[u]) =>
            LET pos == Unwrap(graph.vertices[u])
                adj == graph.adjacency_list[u]
                \* the entry-point nodes of each empty adjacent slot; two
                \* slots never have the same eight nodes
                empty == {EntryNodes[slot] :
                             slot \in {s \in SlotsAt[pos] : IsNone(tiles[s])}}
                unbuilt == {adj[k][1] : k \in {j \in 1..Len(adj) : ~adj[j][2]}}
            IN /\ unbuilt = (UNION empty) \ {u}
               /\ \A v \in unbuilt :
                     EdgeCount(u, v, FALSE) = Cardinality({S \in empty : v \in S})

\* No unbuilt edge joins two entry-point nodes of a placed tile.
NoUnbuiltAcrossPlaced ==
    \A slot \in TileCoords :
        IsSome(tiles[slot]) =>
            \A a, b \in EntryPoints :
                EdgeCount(node_id(from_entry_point_index(slot, a)),
                          node_id(from_entry_point_index(slot, b)), FALSE) = 0

\* No unbuilt edge joins two entry-point nodes of a placed tile, other than
\* the one edge between the two nodes of a side shared with an empty slot.
NoUnbuiltAcrossPlacedButShared ==
    \A slot \in TileCoords :
        IsSome(tiles[slot]) =>
            \A a, b \in EntryPoints :
                LET pa == from_entry_point_index(slot, a)
                    pb == from_entry_point_index(slot, b)
                    shared == {s \in AdjacentSlots(pa) \cap AdjacentSlots(pb) :
                                  a # b /\ IsNone(tiles[s])}
                IN EdgeCount(node_id(pa), node_id(pb), FALSE) = Cardinality(shared)

\* C10 as claimed: the unbuilt edges of every non-null node are exactly those
\* of its empty adjacent slots, and placing a tile leaves no unbuilt edge
\* between any two of the tile's eight entry-point nodes.
C10_UnbuiltEdgesAsClaimed == UnbuiltMatchEmptySlots /\ NoUnbuiltAcrossPlaced

\* C10 amended: the unbuilt edges of every non-null node are exactly those of
\* its empty adjacent slots, once per slot; between two entry-point nodes of
\* a placed tile the only unbuilt edge left is the one a still-empty
\* neighbouring slot sharing both nodes contributes.
C10_UnbuiltEdges == UnbuiltMatchEmptySlots /\ NoUnbuiltAcrossPlacedButShared

\* C10 witness: two adjacent slots are placed, a third is empty, and a node
\* between a placed and an empty slot has a built edge next to its seven
\* unbuilt ones.
C10_Witness ==
    /\ IsSome(tiles[<<0, 0>>])
    /\ IsSome(tiles[<<1, 0>>])
    /\ IsNone(tiles[<<1, 1>>])
    /\ \E u \in NodeIds :
          /\ IsSome(graph.vertices[u])
          /\ Cardinality(BuiltEdges(u)) = 1
          /\ Len(graph.adjacency_list[u]) = 8

\* Both slots adjacent to a position are placed, so a path runs through it.
PassedThrough(pos) ==
    Cardinality(SlotsAt[pos]) = 2 /\ \A slot \in SlotsAt[pos] : IsSome(tiles[slot])

\* C11: a node is null exactly when both tiles adjacent to its position are
\* placed; a null node has an empty adjacency list; every non-null node next
\* to a placed tile is the extremity of a built path, joined by a built edge
\* to a non-null node; and the nodes on the board border are never null.
C11_NullExactlyWhenPassedThrough ==
    \A u \in NodeIds :
        LET pos == Unwrap(NewVertices[u])
            adj == graph.adjacency_list[u]
        IN /\ IsNone(graph.vertices[u]) <=> PassedThrough(pos)
           /\ IsNone(graph.vertices[u]) => adj = <<>>
           /\ is_edge(pos) => IsSome(graph.vertices[u])
           /\ \A k \in 1..Len(adj) : adj[k][2] => IsSome(graph.vertices[adj[k][1]])
           /\ (IsSome(graph.vertices[u]) /\ \E slot \in SlotsAt[pos] : IsSome(tiles[slot]))
                 => BuiltEdges(u) # {}

\* No placed path is a closed loop: the path from every entry point of every
\* placed tile ends.
NoClosedLoop ==
    \A slot \in GraphSlots :
        IsSome(tiles[slot]) =>
            \A e \in EntryPoints : find_path_endpoint(tiles, slot, e).halts

\* How far the graph keeps to C11: it holds whenever no placed path is a
\* closed loop.
NullExactlyOffLoops == NoClosedLoop => C11_NullExactlyWhenPassedThrough

\* Three tiles are placed around a null node without closing a loop.
NullNodeOffLoops ==
    /\ NoClosedLoop
    /\ Cardinality({slot \in GraphSlots : IsSome(tiles[slot])}) = 3
    /\ \E u \in NodeIds : IsNone(graph.vertices[u])

\* C12: the edges of the graph are reciprocal.  Node u's adjacency list holds
\* the entry (v, built) as many times as node v's list holds (u, built), for
\* built and unbuilt edges alike.
C12_EdgesReciprocal ==
    \A u \in NodeIds :
        \A k \in 1..Len(graph.adjacency_list[u]) :
            LET to_id == graph.adjacency_list[u][k][1]
                built == graph.adjacency_list[u][k][2]
            IN EdgeCount(u, to_id, built) = EdgeCount(to_id, u, built)

\* A built path joins two nodes through a removed node while unbuilt edges are
\* still left elsewhere: both loops of place_tile have rewritten the lists.
C12_Witness ==
    /\ \E u \in NodeIds : IsNone(graph.vertices[u])
    /\ \E u \in NodeIds : \E v \in NodeIds \ {u} : EdgeCount(u, v, TRUE) > 0
    /\ \E u \in NodeIds : \E v \in NodeIds \ {u} : EdgeCount(u, v, FALSE) > 0

(***************************************************************************)
(* The pure functions of tile.rs, board/marker.rs and node_id, each        *)
(* applied once to arguments drawn by the initial state.                   *)
(***************************************************************************)

MaxRotation == 7

\* Every tile code Tile::new can be given: the ways to split the digits 1..8
\* into four pairs, each pair and the list written lowest digit first.
RECURSIVE CodesOver(_)
CodesOver(digits) ==
    IF digits = {} THEN {<<>>}
    ELSE LET a == CHOOSE d \in digits : \A other \in digits : d <= other
         IN UNION {{<<<<a, b>>>> \o rest : rest \in CodesOver(digits \ {a, b})} :
                      b \in digits \ {a}}

\* Every tile: Tile::new of every code.
Tiles == {TileNew(code) : code \in CodesOver(1..8)}

\* The argument lists drawn for each function.
PureArgs ==
    [op : {"args"}, of : {"from_entry_point_index"}, position : TileCoords,
     entry_point : EntryPoints, outcome : {"ok"}]
    \cup [op : {"args"}, of : {"entry_point_index_on"}, coords : ValidPositions,
          pos : TileCoords, outcome : {"ok"}]
    \cup [op : {"args"}, of : {"node_id"}, coords : ValidPositions, outcome : {"ok"}]
    \cup [op : {"args"}, of : {"rotated"}, tile : Tiles, num : 0..MaxRotation,
          outcome : {"ok"}]
    \cup [op : {"args"}, of : {"paths"}, tile : Tiles, outcome : {"ok"}]
    \cup [op : {"args"}, of : {"ALL_TILES"}, index : DOMAIN ALL_TILES, outcome : {"ok"}]

\* No board is built: the functions take nothing but their arguments.
InitPure ==
    /\ markers = <<>>
    /\ tiles = <<>>
    /\ graph = <<>>
    /\ call \in PureArgs
    /\ env = NoEnv

Drawn(of) == call.op = "args" /\ call.of = of

FromEntryPointIndex ==
    /\ Drawn("from_entry_point_index")
    /\ call' = [op |-> "from_entry_point_index", position |-> call.position,
                entry_point |-> call.entry_point,
                ret |-> from_entry_point_index(call.position, call.entry_point),
                outcome |-> "ok"]
    /\ UNCHANGED <<markers, tiles, graph, env>>

IndexOnOutcome(r) == IF r.tag = "Panic" THEN "panic" ELSE "ok"

EntryPointIndexOnReturns(coords, pos, r) ==
    call' = [op |-> "entry_point_index_on", coords |-> coords, pos |-> pos,
             ret |-> r, outcome |-> IndexOnOutcome(r)]

EntryPointIndexOn ==
    /\ Drawn("entry_point_index_on")
    /\ EntryPointIndexOnReturns(call.coords, call.pos,
                                entry_point_index_on(call.coords, call.pos))
    /\ UNCHANGED <<markers, tiles, graph, env>>

NodeId ==
    /\ Drawn("node_id")
    /\ call' = [op |-> "node_id", coords |-> call.coords, ret |-> node_id(call.coords),
                outcome |-> "ok"]
    /\ UNCHANGED <<markers, tiles, graph, env>>

Rotated ==
    /\ Drawn("rotated")
    /\ call' = [op |-> "rotated", tile |-> call.tile, num |-> call.num,
                ret |-> rotated(call.tile, call.num), outcome |-> "ok"]
    /\ UNCHANGED <<markers, tiles, graph, env>>

Paths ==
    /\ Drawn("paths")
    /\ call' = [op |-> "paths", tile |-> call.tile, ret |-> paths(call.tile),
                outcome |-> "ok"]
    /\ UNCHANGED <<markers, tiles, graph, env>>

CatalogTile ==
    /\ Drawn("ALL_TILES")
    /\ call' = [op |-> "ALL_TILES", index |-> call.index, ret |-> ALL_TILES[call.index],
                outcome |-> "ok"]
    /\ UNCHANGED <<markers, tiles, graph, env>>

NextPure ==
    \/ FromEntryPointIndex
    \/ EntryPointIndexOn
    \/ NodeId
    \/ Rotated
    \/ Paths
    \/ CatalogTile

SpecPure == InitPure /\ [][NextPure]_vars

\* The (tile, entry point) pairs from_entry_point_index maps to a position.
Producers(coords) ==
    {pair \in TileCoords \X EntryPoints : from_entry_point_index(pair[1], pair[2]) = coords}

\* Two tile coordinates one step apart along one axis.
Orthogonal(a, b) ==
    \/ a[1] = b[1] /\ (a[2] = b[2] + 1 \/ b[2] = a[2] + 1)
    \/ a[2] = b[2] /\ (a[1] = b[1] + 1 \/ b[1] = a[1] + 1)

OppositeEntries == {{5, 0}, {4, 1}, {7, 2}, {6, 3}}

\* C13: for every tile coordinate t and entry point e, entry_point_index_on of
\* the position from_entry_point_index(t, e) on t gives e back; a position
\* inside the board is produced by exactly two (tile, entry) pairs, on two
\* orthogonally adjacent tiles with opposite entries, and a position on the
\* border by exactly one.
C13_EntryPointRoundTrip ==
    call.op = "from_entry_point_index" =>
        LET made == Producers(call.ret)
        IN /\ entry_point_index_on(call.ret, call.position)
                  = [tag |-> "Some", val |-> call.entry_point]
           /\ IF is_edge(call.ret)
              THEN Cardinality(made) = 1
              ELSE /\ Cardinality(made) = 2
                   /\ \A p \in made : \A q \in made \ {p} :
                          /\ Orthogonal(p[1], q[1])
                          /\ {p[2], q[2]} \in OppositeEntries

\* The round trip through the second of the two pairs of an inside position.
C13_Witness ==
    /\ call.op = "from_entry_point_index"
    /\ ~is_edge(call.ret)
    /\ call.entry_point = 0

\* C14: node_id is a bijection from the 168 valid positions onto 0..167.
C14_NodeIdBijection ==
    call.op = "node_id" =>
        /\ Cardinality(ValidPositions) = NumNodes
        /\ call.ret \in NodeIds
        /\ \A other \in ValidPositions : node_id(other) = call.ret => other = call.coords
        /\ {node_id(other) : other \in ValidPositions} = NodeIds

\* The last id is given to a position of the second family.
C14_Witness ==
    /\ call.op = "node_id"
    /\ call.coords[1] % 3 # 0
    /\ call.ret = NumNodes - 1

\* C15: for every valid position and every tile coordinate, entry_point_index_on
\* returns the entry point of the position on the tile when the tile is
\* adjacent to the position, and returns none, without failing, when it is not.
C15_IndexOnNeverFails ==
    call.op = "entry_point_index_on" =>
        /\ call.outcome = "ok"
        /\ IF call.pos \in SlotsAt[call.coords]
           THEN /\ call.ret.tag = "Some"
                /\ from_entry_point_index(call.pos, call.ret.val) = call.coords
           ELSE call.ret.tag = "None"

\* How far entry_point_index_on keeps to C15: it returns the entry point on
\* every adjacent tile, returns none for a tile not adjacent to a position
\* with two adjacent tiles, and fails for a tile not adjacent to a position
\* with a single adjacent tile.
IndexOnFailsOnBorderOnly ==
    call.op = "entry_point_index_on" =>
        IF call.pos \in SlotsAt[call.coords]
        THEN /\ call.ret.tag = "Some"
             /\ from_entry_point_index(call.pos, call.ret.val) = call.coords
        ELSE IF Cardinality(SlotsAt[call.coords]) = 2
        THEN call.ret.tag = "None"
        ELSE call.ret.tag = "Panic" /\ call.outcome = "panic"

IndexOnReturnsNone ==
    call.op = "entry_point_index_on" /\ call.ret.tag = "None"

\* A tile in the sense of the claims: connections is an involution on the
\* entry points without a fixed point.
IsTile(connections) ==
    \A i \in EntryPoints : connections[connections[i]] = i /\ connections[i] # i

\* C16: for every tile and all a, b: rotated(0) and rotated(4) give the tile
\* back, rotated(a).rotated(b) = rotated(a + b), and rotated(n) is a tile that
\* pairs (i + 2n) mod 8 with (j + 2n) mod 8 exactly when the tile pairs i
\* with j.
C16_RotationLaws ==
    call.op = "rotated" =>
        /\ call.num \in {0, 4} => call.ret = call.tile
        /\ \A b \in 0..MaxRotation :
               rotated(call.ret, b) = rotated(call.tile, call.num + b)
        /\ IsTile(call.ret)
        /\ \A i \in EntryPoints : \A j \in EntryPoints :
               (call.tile[i] = j) <=>
                   (call.ret[(i + 2 * call.num) % 8] = (j + 2 * call.num) % 8)

\* A rotation by more than a full turn that changes the tile.
C16_Witness ==
    /\ call.op = "rotated"
    /\ call.num = 5
    /\ call.ret # call.tile

\* C17: for every tile, paths() returns exactly four pairs (a, b) with
\* b = connections[a] and a < b, ordered by increasing a, that cover each of
\* the eight entry points exactly once.
C17_PathsCoverTile ==
    call.op = "paths" =>
        /\ DOMAIN call.ret = 1..4
        /\ \A k \in 1..4 : /\ call.ret[k][2] = call.tile[call.ret[k][1]]
                           /\ call.ret[k][1] < call.ret[k][2]
        /\ \A k \in 1..3 : call.ret[k][1] < call.ret[k + 1][1]
        /\ \A i \in EntryPoints :
               Cardinality({k \in 1..4 : call.ret[k][1] = i})
                   + Cardinality({k \in 1..4 : call.ret[k][2] = i}) = 1

\* The scan skips a connector already used as the end of an earlier pair.
C17_Witness ==
    /\ call.op = "paths"
    /\ call.tile[0] = 1
    /\ call.ret[2] = <<2, 7>>

\* C18: every one of the 35 catalog tiles is an involution on the entry points
\* without a fixed point, and no two catalog entries are equal under any
\* rotation.
C18_CatalogDistinct ==
    call.op = "ALL_TILES" =>
        /\ Len(ALL_TILES_CODES) = 35
        /\ IsTile(call.ret)
        /\ \A other \in DOMAIN ALL_TILES : \A num \in 0..3 :
               other # call.index => rotated(ALL_TILES[other], num) # call.ret

\* The last catalog entry, 16-28-37-45.
C18_Witness ==
    /\ call.op = "ALL_TILES"
    /\ call.index = 34
    /\ call.ret[0] = 5

(***************************************************************************)
(* TsuroEnv (env.rs).  The operators work on a record w that holds the     *)
(* board (markers, tiles, graph), the other fields of the TsuroEnv (e),    *)
(* how the call has gone so far (outcome) and the EnvReturn (ret).         *)
(***************************************************************************)

\* The outcomes of deck.shuffle that are explored: the order is kept or
\* reversed.
ShuffleOutcomes == {"kept", "reversed"}

Reverse(seq) == [k \in 1..Len(seq) |-> seq[Len(seq) + 1 - k]]

shuffle(seq, how) == IF how = "reversed" THEN Reverse(seq) ELSE seq

\* TsuroEnv::new, the loop over the hands: each takes the last three tiles
\* of the deck, in deck order.
RECURSIVE DealFrom(_, _, _)
DealFrom(deck, player_hands, num_players) ==
    IF Len(player_hands) >= num_players
    THEN [deck |-> deck, player_hands |-> player_hands]
    ELSE DealFrom(SubSeq(deck, 1, Len(deck) - 3),
                  Append(player_hands, SubSeq(deck, Len(deck) - 2, Len(deck))),
                  num_players)

TsuroEnvDealt(num_players, dealt) ==
    [num_markers_placed |-> 0,
     phase |-> "Markers",
     active_player |-> 0,
     player_hands |-> dealt.player_hands,
     deck |-> dealt.deck,
     dragon_tile_owner |-> None,
     num_players_left |-> num_players,
     num_players |-> num_players]

\* TsuroEnv::new for Some(num_players), deck being the shuffled catalog.
TsuroEnvNew(num_players, deck) ==
    TsuroEnvDealt(num_players, DealFrom(deck, <<>>, num_players))

\* TsuroEnv::terminated
terminated(e) ==
    \/ e.num_players_left < 2
    \/ /\ \A k \in 1..Len(e.player_hands) : e.player_hands[k] = <<>>
       /\ e.deck = <<>>

\* TsuroEnv::player_after, the loop over the eliminated players.
RECURSIVE PlayerAfterLoop(_, _, _, _)
PlayerAfterLoop(board_markers, num_players, ret, num_iterations) ==
    IF IsSome(board_markers[ret + 1]) THEN [panic |-> FALSE, ret |-> ret]
    ELSE IF num_iterations > num_players THEN [panic |-> TRUE, ret |-> ret]
    ELSE PlayerAfterLoop(board_markers, num_players, (ret + 1) % num_players,
                         num_iterations + 1)

PlayerAfterFound(found, player) ==
    IF ~found.panic /\ found.ret = player THEN [panic |-> TRUE, ret |-> player]
    ELSE found

\* TsuroEnv::player_after
player_after(e, board_markers, player) ==
    IF e.phase = "Markers"
    THEN [panic |-> FALSE, ret |-> (player + 1) % e.num_players]
    ELSE PlayerAfterFound(
             PlayerAfterLoop(board_markers, e.num_players,
                             (player + 1) % e.num_players, 0),
             player)

\* TsuroEnv::get_return, the players whose marker is not null.
RECURSIVE RemainingFrom(_, _)
RemainingFrom(board_markers, player) ==
    IF player >= Len(board_markers) THEN <<>>
    ELSE (IF IsSome(board_markers[player + 1]) THEN <<player>> ELSE <<>>)
         \o RemainingFrom(board_markers, player + 1)

\* TsuroEnv::get_return; the view is given by its hand, the board being w's.
get_return(w, move_is_valid) ==
    [hand |-> w.e.player_hands[w.e.active_player + 1],
     terminated |-> terminated(w.e),
     active_player |-> w.e.active_player,
     phase |-> w.e.phase,
     remaining_players |->
         IF w.e.num_markers_placed = w.e.num_players
         THEN RemainingFrom(w.markers, 0)
         ELSE [k \in 1..w.e.num_players |-> k - 1],
     move_is_valid |-> move_is_valid]

\* TsuroEnv::end_turn from the phase change on.
EndTurnPhase(w, move_is_valid) ==
    LET turned == IF w.e.phase = "Markers" /\ w.e.num_markers_placed = w.e.num_players
                  THEN [w EXCEPT !.e.phase = "Tiles"]
                  ELSE w
    IN [turned EXCEPT !.ret = get_return(turned, move_is_valid)]

EndTurnAfter(w, move_is_valid, after) ==
    IF after.panic THEN [w EXCEPT !.outcome = "panic"]
    ELSE EndTurnPhase([w EXCEPT !.e.active_player = after.ret], move_is_valid)

\* Faulty variant of end_turn: the turn passes on after a rejected move too.
end_turn_AlwaysPasses(w, move_is_valid) ==
    IF w.outcome # "ok" THEN w
    ELSE IF ~terminated(w.e)
    THEN EndTurnAfter(w, move_is_valid, player_after(w.e, w.markers, w.e.active_player))
    ELSE EndTurnPhase(w, move_is_valid)

\* TsuroEnv::end_turn
end_turn(w, move_is_valid) ==
    IF w.outcome # "ok" THEN w
    ELSE IF move_is_valid /\ ~terminated(w.e)
    THEN EndTurnAfter(w, move_is_valid, player_after(w.e, w.markers, w.e.active_player))
    ELSE EndTurnPhase(w, move_is_valid)

\* Faulty variant of MarkerPlaced: a rejected placement is counted too.
MarkerPlaced_CountsAll(w, placed) ==
    end_turn([w EXCEPT !.markers = placed.markers,
                       !.e.num_markers_placed = @ + 1],
             placed.ret)

\* TsuroEnv::step_place_marker from the result of Board::place_marker on.
MarkerPlaced(w, placed) ==
    end_turn([w EXCEPT !.markers = placed.markers,
                       !.e.num_markers_placed = IF placed.ret THEN @ + 1 ELSE @],
             placed.ret)

\* TsuroEnv::step_place_marker
step_place_marker(w, position_index) ==
    IF w.e.num_markers_placed >= w.e.num_players
    THEN [w EXCEPT !.outcome = "panic"]
    ELSE MarkerPlaced(w, place_marker(w.markers, position_index))

\* TsuroEnv::all_rotated_tiles_of
all_rotated_tiles_of(e, player) ==
    [k \in 1..(4 * Len(e.player_hands[player + 1])) |->
        rotated(e.player_hands[player + 1][((k - 1) \div 4) + 1], (k - 1) % 4)]

\* TsuroEnv::active_player_hand_find_tile: position() over the rotations,
\* then idx / 4.
HandFind(hand, tile) ==
    LET hits == {k \in 1..Len(hand) : hand[k] = tile}
    IN IF hits = {} THEN None
       ELSE Some(((CHOOSE k \in hits : \A j \in hits : k <= j) - 1) \div 4)

active_player_hand_find_tile(e, tile) ==
    HandFind(all_rotated_tiles_of(e, e.active_player), tile)

\* TsuroEnv::move_is_allowed, the any() over the rotations of the hand: it
\* stops at the first move that is no suicide.
RECURSIVE AnyNotSuicide(_, _, _, _, _)
AnyNotSuicideAt(is_suicide, board_markers, board_tiles, moves, player, k) ==
    IF is_suicide.outcome # "ok" THEN [outcome |-> is_suicide.outcome, ret |-> FALSE]
    ELSE IF ~is_suicide.ret THEN [outcome |-> "ok", ret |-> TRUE]
    ELSE AnyNotSuicide(board_markers, board_tiles, moves, player, k + 1)

AnyNotSuicide(board_markers, board_tiles, moves, player, k) ==
    IF k > Len(moves) THEN [outcome |-> "ok", ret |-> FALSE]
    ELSE AnyNotSuicideAt(move_is_suicide(board_markers, board_tiles, moves[k], player),
                         board_markers, board_tiles, moves, player, k)

AllowedAfter(w, is_suicide) ==
    IF is_suicide.outcome # "ok" THEN [outcome |-> is_suicide.outcome, ret |-> FALSE]
    ELSE IF ~is_suicide.ret THEN [outcome |-> "ok", ret |-> TRUE]
    ELSE LET any == AnyNotSuicide(w.markers, w.tiles,
                                  all_rotated_tiles_of(w.e, w.e.active_player),
                                  w.e.active_player, 1)
         IN [outcome |-> any.outcome, ret |-> any.outcome = "ok" /\ ~any.ret]

\* TsuroEnv::move_is_allowed
move_is_allowed(w, tile) ==
    IF IsNone(active_player_hand_find_tile(w.e, tile))
    THEN [outcome |-> "ok", ret |-> FALSE]
    ELSE AllowedAfter(w, move_is_suicide(w.markers, w.tiles, tile, w.e.active_player))

\* Faulty variant of TsuroEnv::eliminate_player: the hand is cleared and
\* its tiles do not go back to the deck.
env_eliminate_player_DropsHand(w, player, how) ==
    [w EXCEPT !.markers = eliminate_player(@, player),
              !.e = [@ EXCEPT !.deck = shuffle(@, how),
                              !.player_hands[player + 1] = <<>>,
                              !.num_players_left = @ - 1]]

\* Faulty variant of TsuroEnv::eliminate_player: the player is not counted
\* out of num_players_left.
env_eliminate_player_KeepsCount(w, player, how) ==
    [w EXCEPT !.markers = eliminate_player(@, player),
              !.e = [@ EXCEPT !.deck = shuffle(@ \o w.e.player_hands[player + 1], how),
                              !.player_hands[player + 1] = <<>>]]

\* TsuroEnv::eliminate_player
env_eliminate_player(w, player, how) ==
    [w EXCEPT !.markers = eliminate_player(@, player),
              !.e = [@ EXCEPT !.deck = shuffle(@ \o w.e.player_hands[player + 1], how),
                              !.player_hands[player + 1] = <<>>,
                              !.num_players_left = @ - 1]]

\* The loops of handle_collisions and move_markers over the players to
\* eliminate.
RECURSIVE EliminateEach(_, _, _, _)
EliminateEach(w, players, k, how) ==
    IF k > Len(players) THEN w
    ELSE EliminateEach(env_eliminate_player(w, players[k], how), players, k + 1, how)

CollisionsAt(w, tile, how, next) ==
    IF next.panic THEN [w EXCEPT !.outcome = "panic"]
    ELSE EliminateEach(w, find_collisions(w.markers, tile, next.coord), 1, how)

\* TsuroEnv::handle_collisions
handle_collisions(w, tile, how) ==
    CollisionsAt(w, tile, how, next_tile_of_player(w.markers, w.e.active_player))

PlacedOnBoard(w, placed) ==
    [w EXCEPT !.tiles = placed.tiles, !.graph = placed.graph, !.outcome = placed.outcome]

PlaceFromHand(w, tile, tile_idx) ==
    IF IsNone(tile_idx) THEN [w EXCEPT !.outcome = "panic"]
    ELSE PlacedOnBoard(
             [w EXCEPT !.e.player_hands[w.e.active_player + 1] =
                           swap_remove(@, Unwrap(tile_idx) + 1)],
             place_tile(w.tiles, w.graph, w.markers, tile, w.e.active_player))

\* TsuroEnv::place_tile
env_place_tile(w, tile) ==
    IF w.outcome # "ok" THEN w
    ELSE PlaceFromHand(w, tile, active_player_hand_find_tile(w.e, tile))

MovedOnBoard(w, moved, how) ==
    IF moved.outcome # "ok"
    THEN [w EXCEPT !.markers = moved.markers, !.outcome = moved.outcome]
    ELSE EliminateEach([w EXCEPT !.markers = moved.markers], moved.eliminated, 1, how)

\* TsuroEnv::move_markers
env_move_markers(w, how) ==
    IF w.outcome # "ok" THEN w
    ELSE MovedOnBoard(w, move_markers(w.markers, w.tiles), how)

\* TsuroEnv::draw_tiles, the while loop; the result is w and current.
RECURSIVE DrawLoop(_, _)
DrawNext(w, after) ==
    IF after.panic THEN [w |-> [w EXCEPT !.outcome = "panic"], current |-> after.ret]
    ELSE DrawLoop(w, after.ret)

DrawLoop(w, current) ==
    IF w.e.deck # <<>> /\ Len(w.e.player_hands[current + 1]) < 3
    THEN DrawNext([w EXCEPT !.e = [@ EXCEPT !.player_hands[current + 1] =
                                                Append(@, w.e.deck[Len(w.e.deck)]),
                                            !.deck = SubSeq(@, 1, Len(@) - 1)]],
                  player_after(w.e, w.markers, current))
    ELSE [w |-> w, current |-> current]

DrawDone(drawn) ==
    IF /\ drawn.w.outcome = "ok"
       /\ IsNone(drawn.w.e.dragon_tile_owner)
       /\ Len(drawn.w.e.player_hands[drawn.current + 1]) < 3
    THEN [drawn.w EXCEPT !.e.dragon_tile_owner = Some(drawn.current)]
    ELSE drawn.w

\* TsuroEnv::draw_tiles
draw_tiles(w) ==
    DrawDone(DrawLoop(IF w.e.deck # <<>> /\ IsSome(w.e.dragon_tile_owner)
                      THEN [w EXCEPT !.e.dragon_tile_owner = None]
                      ELSE w,
                      IF IsSome(w.e.dragon_tile_owner)
                      THEN Unwrap(w.e.dragon_tile_owner)
                      ELSE w.e.active_player))

\* TsuroEnv::step_place_tile after move_markers.
AfterMove(w) ==
    IF w.outcome # "ok" THEN w
    ELSE IF terminated(w.e) THEN end_turn(w, TRUE)
    ELSE end_turn(draw_tiles(w), TRUE)

\* TsuroEnv::step_place_tile after handle_collisions.
AfterCollisions(w, tile, how) ==
    IF w.outcome # "ok" THEN w
    ELSE IF terminated(w.e) THEN end_turn(w, TRUE)
    ELSE AfterMove(env_move_markers(env_place_tile(w, tile), how))

\* TsuroEnv::step_place_tile after move_is_allowed.
AfterAllowed(w, tile, how, allowed) ==
    IF allowed.outcome # "ok" THEN [w EXCEPT !.outcome = allowed.outcome]
    ELSE IF ~allowed.ret THEN end_turn(w, FALSE)
    ELSE AfterCollisions(handle_collisions(w, tile, how), tile, how)

\* TsuroEnv::step_place_tile
step_place_tile(w, tile, how) ==
    IF w.e.num_markers_placed # w.e.num_players THEN [w EXCEPT !.outcome = "panic"]
    ELSE IF terminated(w.e) THEN [w EXCEPT !.outcome = "panic"]
    ELSE AfterAllowed(w, tile, how, move_is_allowed(w, tile))

(***************************************************************************)
(* A game of four players on a TsuroEnv.                                   *)
(***************************************************************************)

NumPlayers == 4

MaxEnvTiles == 3

\* The border indices offered to step_place_marker: (5, 0) below slot (1, 0),
\* (1, 0) and (0, 1) on slot (0, 0), (0, 4) left of slot (0, 1).
EnvMarkerIndices == {32, 35, 36, 38}

\* The catalog in the order one shuffle leaves it, by catalog index; the
\* last twelve tiles are dealt.
ShuffledOrder ==
    <<12, 13, 14, 15, 16, 17, 18, 19, 20, 21, 22, 23, 24, 25, 26, 27, 28, 29, 30, 31,
      32, 33, 34, 9, 10, 11, 0, 2, 4, 6, 7, 8, 1, 3, 5>>

ShuffledDeck == [k \in 1..Len(ShuffledOrder) |-> ALL_TILES[ShuffledOrder[k]]]

InitEnv ==
    /\ markers = BoardNewMarkers
    /\ tiles = BoardNewTiles
    /\ graph = BoardGraphNew
    /\ call = [op |-> "new", outcome |-> "ok"]
    /\ env = TsuroEnvNew(NumPlayers, ShuffledDeck)

\* The TsuroEnv before a call.
World ==
    [markers |-> markers, tiles |-> tiles, graph |-> graph, e |-> env,
     outcome |-> "ok", ret |-> <<>>]

\* The TsuroEnv after a call that left w, recorded as made.
Returned(w, made) ==
    /\ markers' = w.markers
    /\ tiles' = w.tiles
    /\ graph' = w.graph
    /\ env' = w.e
    /\ call' = [made EXCEPT !.ret = w.ret, !.outcome = w.outcome]

StepPlaceMarker(position_index) ==
    /\ Running
    /\ Returned(step_place_marker(World, position_index),
                [op |-> "step_place_marker", position_index |-> position_index,
                 ret |-> <<>>, outcome |-> "ok"])

\* The tiles offered to step_place_tile: every rotation of the tiles in the
\* hands of the active player and of the player next in index.
OfferedTiles ==
    LET own == all_rotated_tiles_of(env, env.active_player)
        other == all_rotated_tiles_of(env, (env.active_player + 1) % env.num_players)
    IN {own[k] : k \in 1..Len(own)} \cup {other[k] : k \in 1..Len(other)}

StepPlaceTile(tile, how) ==
    /\ Running
    /\ NumPlaced < MaxEnvTiles
    /\ Returned(step_place_tile(World, tile, how),
                [op |-> "step_place_tile", tile |-> tile, how |-> how,
                 ret |-> <<>>, outcome |-> "ok"])

NextEnv ==
    \/ \E position_index \in EnvMarkerIndices : StepPlaceMarker(position_index)
    \/ \E tile \in OfferedTiles, how \in ShuffleOutcomes : StepPlaceTile(tile, how)

SpecEnv == InitEnv /\ [][NextEnv]_vars

\* The tile is some rotation of a tile in the active player's hand.
InActiveHand(tile) ==
    \E k \in DOMAIN all_rotated_tiles_of(env, env.active_player) :
        all_rotated_tiles_of(env, env.active_player)[k] = tile

IsSuicide(tile) == move_is_suicide(markers, tiles, tile, env.active_player).ret

\* The tile may be placed by the rule of the game: it is in the hand, and it
\* is no suicide or every rotation of every tile in the hand is one.
MayPlace(tile) ==
    /\ InActiveHand(tile)
    /\ \/ ~IsSuicide(tile)
       \/ \A k \in DOMAIN all_rotated_tiles_of(env, env.active_player) :
              IsSuicide(all_rotated_tiles_of(env, env.active_player)[k])

\* step_place_tile is called on a game in its tile phase that has not ended.
TileStep ==
    /\ call'.op = "step_place_tile"
    /\ env.num_markers_placed = env.num_players
    /\ ~terminated(env)

\* C19: step_place_tile accepts a tile (move_is_valid = true) exactly when
\* the tile is some rotation of a tile in the active player's hand and either
\* it is no suicide or every rotation of every tile in the hand is a suicide.
C19_AcceptsExactlyAllowed ==
    [][TileStep =>
          ((call'.outcome = "ok" /\ call'.ret.move_is_valid) <=> MayPlace(call'.tile))]_vars

\* The players the tile would make collide, in front of the active player.
CollidersOf(tile) ==
    find_collisions(markers, tile, next_tile_of_player(markers, env.active_player).coord)

\* The tile makes the active player collide and leaves two or more players.
ActiveCollidesOn(tile) ==
    /\ \E k \in 1..Len(CollidersOf(tile)) : CollidersOf(tile)[k] = env.active_player
    /\ env.num_players_left - Len(CollidersOf(tile)) >= 2

\* How far step_place_tile keeps to C19: it fails on a tile that may be
\* placed and makes the active player collide while two or more other
\* players stay in the game, and accepts exactly the tiles that may be placed
\* everywhere else.
AcceptsUnlessActiveCollides ==
    [][TileStep =>
          IF MayPlace(call'.tile) /\ ActiveCollidesOn(call'.tile)
          THEN call'.outcome = "panic"
          ELSE ((call'.outcome = "ok" /\ call'.ret.move_is_valid)
                   <=> MayPlace(call'.tile))]_vars

\* The step made is one the rules reject: a marker on a border position
\* already claimed, or a tile that may not be placed.
RejectedStep ==
    \/ /\ call'.op = "step_place_marker"
       /\ env.num_markers_placed < env.num_players
       /\ \E k \in 1..Len(markers) :
              /\ IsSome(markers[k])
              /\ Unwrap(markers[k]).position = from_index(call'.position_index)
    \/ TileStep /\ ~MayPlace(call'.tile)

\* C20: a TsuroEnv step that is rejected returns move_is_valid = false and
\* leaves the board (grid, markers, graph), every hand, the deck, the active
\* player, the phase and the player counters unchanged.
C20_RejectedStepChangesNothing ==
    [][(RejectedStep \/ (call'.outcome = "ok" /\ ~call'.ret.move_is_valid)) =>
          /\ call'.outcome = "ok"
          /\ ~call'.ret.move_is_valid
          /\ UNCHANGED <<markers, tiles, graph, env>>]_vars

\* A suicide was rejected: the tile is still in the active player's hand.
C20_Witness ==
    /\ call.op = "step_place_tile"
    /\ call.outcome = "ok"
    /\ ~call.ret.move_is_valid
    /\ InActiveHand(call.tile)
    /\ NumPlaced > 0

(***************************************************************************)
(* The exported views of the graph (view.rs, board/graph.rs).              *)
(***************************************************************************)

\* Faulty variant of BfsVisit: a node found is given the distance of the
\* node it was found from.
BfsVisit_SameDist(st, to_id, next_dist) ==
    IF to_id \in st.visited THEN st
    ELSE [out |-> Append(st.out, <<next_dist - 1, to_id>>),
          queue |-> Append(st.queue, <<to_id, next_dist - 1>>),
          visited |-> st.visited \cup {to_id}]

\* BoardGraph::bfs_from, the body of the for loop for one neighbour.
BfsVisit(st, to_id, next_dist) ==
    IF to_id \in st.visited THEN st
    ELSE [out |-> Append(st.out, <<next_dist, to_id>>),
          queue |-> Append(st.queue, <<to_id, next_dist>>),
          visited |-> st.visited \cup {to_id}]

\* BoardGraph::bfs_from, the for loop over the neighbours of the node popped.
RECURSIVE BfsNeighbours(_, _, _, _)
BfsNeighbours(st, neighbours, k, next_dist) ==
    IF k > Len(neighbours) THEN st
    ELSE BfsNeighbours(BfsVisit(st, neighbours[k][1], next_dist), neighbours, k + 1,
                       next_dist)

\* BoardGraph::bfs_from, the body of the while loop for the entry popped.
BfsPopped(adjacency_list, st, current) ==
    BfsNeighbours(st, adjacency_list[current[1]], 1, current[2] + 1)

\* BoardGraph::bfs_from, one turn of the while loop; an empty queue ends it.
BfsTurn(adjacency_list, st) ==
    IF st.queue = <<>> THEN st
    ELSE BfsPopped(adjacency_list, [st EXCEPT !.queue = Tail(@)], Head(st.queue))

\* BoardGraph::bfs_from, the while loop run for up to turns turns: the first
\* half of them, then the rest unless the queue is empty by then.
RECURSIVE BfsLoop(_, _, _)
BfsRest(adjacency_list, st, turns) ==
    IF st.queue = <<>> THEN st ELSE BfsLoop(adjacency_list, st, turns)

BfsLoop(adjacency_list, st, turns) ==
    IF turns <= 1 THEN BfsTurn(adjacency_list, st)
    ELSE BfsRest(adjacency_list,
                 BfsLoop(adjacency_list, st, turns \div 2),
                 turns - (turns \div 2))

\* BoardGraph::bfs_from.  Every node enters the queue at most once, so the
\* loop ends within one turn for each of the 168 nodes.
bfs_from(adjacency_list, from_id) ==
    BfsLoop(adjacency_list,
            [out |-> <<<<0, from_id>>>>, queue |-> <<<<from_id, 0>>>>,
             visited |-> {from_id}],
            NumNodes).out

\* Faulty variant of MatrixRow: a cell already written is left as it is.
RECURSIVE MatrixRow_FirstWins(_, _, _)
MatrixRow_FirstWins(row, neighbors, k) ==
    IF k > Len(neighbors) THEN row
    ELSE MatrixRow_FirstWins(
             IF row[neighbors[k][1]] # 0 THEN row
             ELSE [row EXCEPT ![neighbors[k][1]] = IF neighbors[k][2] THEN 1 ELSE -1],
             neighbors, k + 1)

\* BoardGraph::adjacency_matrix_tensor, the inner loop: the cells of one row
\* are written in list order.
RECURSIVE MatrixRow(_, _, _)
MatrixRow(row, neighbors, k) ==
    IF k > Len(neighbors) THEN row
    ELSE MatrixRow([row EXCEPT ![neighbors[k][1]] = IF neighbors[k][2] THEN 1 ELSE -1],
                   neighbors, k + 1)

\* BoardGraph::adjacency_matrix_tensor: the 168 x 168 matrix, row by row.
adjacency_matrix_tensor(adjacency_list) ==
    [from_id \in NodeIds |->
        MatrixRow([to_id \in NodeIds |-> 0], adjacency_list[from_id], 1)]

\* The tiles placed before the views are taken.
ViewTiles == {ALL_TILES[0], ALL_TILES[1]}

\* The nodes bfs_from is started on: (1, 0) on the border, (1, 3) and (3, 1)
\* on the inner sides of slot (0, 0).
BfsSources == {node_id(<<1, 0>>), node_id(<<1, 3>>), node_id(<<3, 1>>)}

BfsFrom(from_id) ==
    /\ Running
    /\ call' = [op |-> "bfs_from", node_id |-> from_id,
                ret |-> bfs_from(graph.adjacency_list, from_id), outcome |-> "ok"]
    /\ UNCHANGED <<markers, tiles, graph, env>>

AdjacencyMatrixTensor ==
    /\ Running
    /\ call' = [op |-> "adjacency_matrix_tensor",
                ret |-> adjacency_matrix_tensor(graph.adjacency_list), outcome |-> "ok"]
    /\ UNCHANGED <<markers, tiles, graph, env>>

NextView ==
    \/ \E tile \in ViewTiles, tile_coords \in GraphSlots : GraphPlaceTile(tile, tile_coords)
    \/ \E from_id \in BfsSources : BfsFrom(from_id)
    \/ AdjacencyMatrixTensor

SpecView == InitGraph /\ [][NextView]_vars

\* The nodes one edge away from a set of nodes.
Neighbours(nodes) ==
    UNION {{graph.adjacency_list[u][k][1] : k \in 1..Len(graph.adjacency_list[u])} :
              u \in nodes}

\* The nodes at each distance from a node: layers[d + 1] holds the nodes whose
\* shortest path from it has d edges, up to the last layer that is not empty.
RECURSIVE LayersFrom(_, _)
LayersFrom(layers, seen) ==
    LET next == Neighbours(layers[Len(layers)]) \ seen
    IN IF next = {} THEN layers ELSE LayersFrom(Append(layers, next), seen \cup next)

\* C21: bfs_from(s) returns s first with distance 0, then every node reachable
\* from s over built or unbuilt edges exactly once, each with its shortest-path
\* edge count from s, in non-decreasing distance order; nodes not reachable
\* from s do not appear.
C21_BfsShortestDistances ==
    call.op = "bfs_from" =>
        LET out == call.ret
            layers == LayersFrom(<<{call.node_id}>>, {call.node_id})
        IN /\ out[1] = <<0, call.node_id>>
           /\ \A k \in 1..Len(out) : \A j \in 1..Len(out) : out[k][2] = out[j][2] => k = j
           /\ \A k \in 1..Len(out) :
                  /\ out[k][1] + 1 \in 1..Len(layers)
                  /\ out[k][2] \in layers[out[k][1] + 1]
           /\ \A d \in 1..Len(layers) : \A u \in layers[d] :
                  \E k \in 1..Len(out) : out[k] = <<d - 1, u>>
           /\ \A k \in 1..(Len(out) - 1) : out[k][1] <= out[k + 1][1]

\* A search over a graph with a removed node: not every node is reached.
C21_Witness ==
    /\ call.op = "bfs_from"
    /\ Len(call.ret) > 1
    /\ Len(call.ret) < NumNodes
    /\ \E k \in 1..Len(call.ret) : call.ret[k][1] > 2

\* C22: in every graph state reachable by tile placements, cell (u, v) of the
\* exported matrix is +1 exactly when u's adjacency list holds a built edge to
\* v, -1 exactly when it holds an unbuilt edge to v, and 0 exactly when it
\* holds no edge to v.
C22_MatrixMatchesLists ==
    call.op = "adjacency_matrix_tensor" =>
        \A u \in NodeIds : \A v \in NodeIds :
            /\ call.ret[u][v] = 1 <=> EdgeCount(u, v, TRUE) > 0
            /\ call.ret[u][v] = -1 <=> EdgeCount(u, v, FALSE) > 0
            /\ call.ret[u][v] = 0 <=> EdgeCount(u, v, TRUE) + EdgeCount(u, v, FALSE) = 0

\* How far the matrix keeps to C22: a cell is 0 exactly when the list holds no
\* edge to v, and otherwise shows the kind of the last edge to v in the list,
\* which is the only kind unless the list holds edges of both kinds to v.
MatrixShowsLastEdge ==
    call.op = "adjacency_matrix_tensor" =>
        \A u \in NodeIds : \A v \in NodeIds :
            LET list == graph.adjacency_list[u]
                to_v == {k \in 1..Len(list) : list[k][1] = v}
            IN IF to_v = {} THEN call.ret[u][v] = 0
               ELSE LET last == CHOOSE k \in to_v : \A j \in to_v : j <= k
                    IN call.ret[u][v] = IF list[last][2] THEN 1 ELSE -1

\* C22 as it holds: cell (u, v) is +1 exactly when u's adjacency list holds a
\* built edge to v, -1 exactly when it holds an unbuilt edge to v and no built
\* one, and 0 exactly when it holds no edge to v.
C22_MatrixBuiltOverUnbuilt ==
    call.op = "adjacency_matrix_tensor" =>
        \A u \in NodeIds : \A v \in NodeIds :
            /\ call.ret[u][v] = 1 <=> EdgeCount(u, v, TRUE) > 0
            /\ call.ret[u][v] = -1 <=>
                   (EdgeCount(u, v, FALSE) > 0 /\ EdgeCount(u, v, TRUE) = 0)
            /\ call.ret[u][v] = 0 <=> EdgeCount(u, v, TRUE) + EdgeCount(u, v, FALSE) = 0

\* A list holds a built and an unbuilt edge to the same node.
C22_Witness ==
    /\ call.op = "adjacency_matrix_tensor"
    /\ \E u \in NodeIds : \E v \in NodeIds :
           EdgeCount(u, v, TRUE) > 0 /\ EdgeCount(u, v, FALSE) > 0

(***************************************************************************)
(* The course of a game on a TsuroEnv.                                     *)
(***************************************************************************)

\* C23: in a game in its tile phase that has not ended, step_place_tile on a
\* tile that move_is_allowed accepts runs to completion: after the collisions
\* are handled, placing the tile neither asks for the next tile of an
\* eliminated player nor misses the tile in the hand.
C23_AllowedTileCompletes ==
    [][(TileStep /\ move_is_allowed(World, call'.tile).ret) => call'.outcome = "ok"]_vars

\* What C24 states of one marker on the board: the previous tile is null
\* exactly when the marker has not moved and exactly when it stands on the
\* border; a previous tile is an occupied slot next to the position, the
\* slot on the other side being empty; with no previous tile the one slot
\* next to the position is empty.
MarkerConsistent(marker, adjacents) ==
    /\ IsNone(marker.previous_tile) <=> ~marker.has_moved
    /\ IsNone(marker.previous_tile) <=> is_edge(marker.position)
    /\ IsSome(marker.previous_tile) =>
           /\ Len(adjacents) = 2
           /\ \E k \in 1..2 :
                  /\ adjacents[k] = Unwrap(marker.previous_tile)
                  /\ IsSome(tiles[adjacents[k]])
                  /\ IsNone(tiles[adjacents[3 - k]])
    /\ IsNone(marker.previous_tile) =>
           /\ Len(adjacents) = 1
           /\ IsNone(tiles[adjacents[1]])

\* C24: initially and after every completed step of the TsuroEnv, every
\* marker that is not null is consistent (MarkerConsistent), so
\* next_tile_of_player fails on none of its assertions and returns an empty
\* slot.
C24_MarkersConsistent ==
    Running =>
        \A player \in 0..(Len(markers) - 1) :
            IsSome(markers[player + 1]) =>
                /\ MarkerConsistent(Unwrap(markers[player + 1]),
                                    adjacent_tiles(Unwrap(markers[player + 1]).position))
                /\ ~next_tile_of_player(markers, player).panic
                /\ IsNone(tiles[next_tile_of_player(markers, player).coord])

\* After a completed step_place_tile the board holds a marker that has moved
\* twice (its previous tile is not the first one on its path) and one that
\* still waits on the border.
C24_Witness ==
    /\ call.op = "step_place_tile"
    /\ Running
    /\ NumPlaced >= 2
    /\ \E k \in 1..Len(markers) :
           /\ IsSome(markers[k])
           /\ Unwrap(markers[k]).has_moved
    /\ \E k \in 1..Len(markers) :
           /\ IsSome(markers[k])
           /\ ~Unwrap(markers[k]).has_moved

\* The candidate tiles of a player: every rotation of the tiles in the hand.
Candidates(player) ==
    {all_rotated_tiles_of(env, player)[k] :
        k \in DOMAIN all_rotated_tiles_of(env, player)}

\* C25: in every state a game reaches (markers on the border, tiles placed
\* on a player's next slot, move_markers after each placement) move_markers
\* terminates, and move_is_suicide terminates for every active player and
\* every candidate tile after crossing the candidate tile at most four
\* times: no marker's path enters a closed loop.
C25_WalksTerminate ==
    /\ call.outcome # "hang"
    /\ Running =>
          /\ move_markers(markers, tiles).outcome # "hang"
          /\ \A player \in 0..(Len(markers) - 1) :
                 IsSome(markers[player + 1]) =>
                     \A tile \in Candidates(player) :
                         LET walked == move_is_suicide(markers, tiles, tile, player)
                         IN walked.outcome # "hang" /\ walked.crossings <= 4

\* A tile has been placed and moved over, and a candidate tile of an active
\* player leads the path back into its own slot: the loop of move_is_suicide
\* crosses the tile more than once.
C25_Witness ==
    /\ call.op = "step_place_tile"
    /\ Running
    /\ \E player \in 0..(Len(markers) - 1) :
           /\ IsSome(markers[player + 1])
           /\ \E tile \in Candidates(player) :
                  /\ move_is_suicide(markers, tiles, tile, player).outcome = "ok"
                  /\ move_is_suicide(markers, tiles, tile, player).crossings >= 2

\* C26: under the sequencing of the TsuroEnv (all markers first, then for
\* each accepted tile the colliding players eliminated, the tile placed, the
\* markers moved, the players on the edge eliminated) no two markers that
\* are not null stand on the same position.
C26_MarkersApart ==
    \A j, k \in 1..Len(markers) :
        (j < k /\ IsSome(markers[j]) /\ IsSome(markers[k]))
            => Unwrap(markers[j]).position # Unwrap(markers[k]).position

\* One accepted tile moved two markers at once, and both are still in the
\* game.
C26_Witness ==
    /\ call.op = "step_place_tile"
    /\ Running
    /\ call.ret.move_is_valid
    /\ NumPlaced = 1
    /\ \E j, k \in 1..Len(markers) :
           /\ j < k
           /\ IsSome(markers[j]) /\ Unwrap(markers[j]).has_moved
           /\ IsSome(markers[k]) /\ Unwrap(markers[k]).has_moved

\* The steps of callers that keep to the phases of the game and submit what
\* is accepted: a border position no marker has taken while markers are
\* missing, then a tile of the active player's hand that move_is_allowed
\* accepts until the game has terminated.
NextGame ==
    \/ /\ env.num_markers_placed < env.num_players
       /\ \E position_index \in EnvMarkerIndices :
              /\ place_marker(markers, position_index).ret
              /\ StepPlaceMarker(position_index)
    \/ /\ env.num_markers_placed = env.num_players
       /\ ~terminated(env)
       /\ \E tile \in Candidates(env.active_player), how \in ShuffleOutcomes :
              /\ move_is_allowed(World, tile).ret
              /\ StepPlaceTile(tile, how)

\* NextGame can make a step: ENABLED <<NextGame>>_vars, written out.
CanStep ==
    /\ Running
    /\ \/ /\ env.num_markers_placed < env.num_players
          /\ \E position_index \in EnvMarkerIndices :
                 place_marker(markers, position_index).ret
       \/ /\ env.num_markers_placed = env.num_players
          /\ ~terminated(env)
          /\ NumPlaced < MaxEnvTiles
          /\ \E tile \in Candidates(env.active_player) : move_is_allowed(World, tile).ret

\* Weak fairness of NextGame, WF_vars(NextGame) with its enabling condition
\* written out: a step that stays possible is made in the end.
FairGame == ([]<>~CanStep) \/ ([]<><<NextGame>>_vars)

\* A game whose callers keep submitting steps the TsuroEnv accepts.
SpecGame == InitEnv /\ [][NextGame]_vars /\ FairGame

\* The game is over, or has gone as far as the tiles played here allow.
GameOver ==
    \/ env.phase = "Tiles" /\ terminated(env)
    \/ NumPlaced >= MaxEnvTiles

\* In a game in its tile phase that has not ended the active player has a
\* marker and a tile, and move_is_allowed accepts one of the rotations of
\* the hand.
ActiveCanPlay ==
    (Running /\ env.phase = "Tiles" /\ ~terminated(env)) =>
        /\ IsSome(markers[env.active_player + 1])
        /\ env.player_hands[env.active_player + 1] # <<>>
        /\ \E tile \in Candidates(env.active_player) : move_is_allowed(World, tile).ret

\* Under FairGame the game comes to its end.
GameReachesEnd == <>GameOver

\* While every step has returned, a game that is not over can go on.
ReturnedGameGoesOn == Running => (GameOver \/ CanStep)

\* C27: in a game in its tile phase that has not ended the active player is
\* not eliminated and holds a tile that is accepted, and a game whose callers
\* keep submitting accepted steps is never stuck short of its end: in every
\* state it reaches either terminated() is true (here: or the last tile has
\* been played) or the next accepted step can be made.
C27_GameNeverStuck == ActiveCanPlay /\ (GameOver \/ CanStep)

(***************************************************************************)
(* The view of a player (view.rs): the board, the hand and the active      *)
(* player of the TsuroEnv it was taken from.                               *)
(***************************************************************************)

\* The derived order of Tile: the connections compared entry by entry.
TileLess(a, b) ==
    \E i \in EntryPoints : a[i] < b[i] /\ \A j \in EntryPoints : j < i => a[j] = b[j]

\* sorted_unstable, one tile put in its place of a sorted sequence.
SortInsert(sorted, tile) ==
    LET before == Cardinality({k \in 1..Len(sorted) : ~TileLess(tile, sorted[k])})
    IN SubSeq(sorted, 1, before) \o <<tile>> \o SubSeq(sorted, before + 1, Len(sorted))

RECURSIVE SortFrom(_, _, _)
SortFrom(seq, k, sorted) ==
    IF k > Len(seq) THEN sorted
    ELSE SortFrom(seq, k + 1, SortInsert(sorted, seq[k]))

\* View::all_rotated_tiles
all_rotated_tiles(hand) ==
    dedup(SortFrom([k \in 1..(4 * Len(hand)) |->
                       rotated(hand[((k - 1) \div 4) + 1], (k - 1) % 4)],
                   1, <<>>))

\* View::afterstates, the loop of board.eliminate_player over the players
\* move_markers reported.
RECURSIVE EliminateReported(_, _, _)
EliminateReported(board_markers, eliminated, k) ==
    IF k > Len(eliminated) THEN board_markers
    ELSE EliminateReported(eliminate_player(board_markers, eliminated[k]), eliminated, k + 1)

\* View::afterstates, the loop body from the result of move_markers on.
AfterstateMoved(placed, moved) ==
    [outcome |-> moved.outcome,
     board |-> [markers |-> IF moved.outcome = "ok"
                            THEN EliminateReported(moved.markers, moved.eliminated, 1)
                            ELSE moved.markers,
                tiles |-> placed.tiles,
                graph |-> placed.graph]]

\* View::afterstates, the loop body from the result of place_tile on.
AfterstatePlaced(board_markers, placed) ==
    IF placed.outcome # "ok"
    THEN [outcome |-> placed.outcome,
          board |-> [markers |-> board_markers, tiles |-> placed.tiles,
                     graph |-> placed.graph]]
    ELSE AfterstateMoved(placed, move_markers(board_markers, placed.tiles))

\* View::afterstates, the loop body for a tile that is not skipped: the
\* clone of the board after the tile is placed and the markers are moved.
Afterstate(view, tile) ==
    AfterstatePlaced(view.markers,
                     place_tile(view.tiles, view.graph, view.markers, tile,
                                view.active_player))

\* View::afterstates, the loop over the tiles; all_suicide and is_suicide are
\* the flags computed before it.
RECURSIVE AfterstatesFrom(_, _, _, _, _, _)
AfterstatesNext(view, rotations, is_suicide, all_suicide, k, out, after) ==
    IF after.outcome # "ok" THEN [outcome |-> after.outcome, out |-> out]
    ELSE AfterstatesFrom(view, rotations, is_suicide, all_suicide, k + 1,
                         Append(out, <<rotations[k], after.board>>))

AfterstatesFrom(view, rotations, is_suicide, all_suicide, k, out) ==
    IF k > Len(rotations) THEN [outcome |-> "ok", out |-> out]
    ELSE IF is_suicide[k].ret /\ ~all_suicide
    THEN AfterstatesFrom(view, rotations, is_suicide, all_suicide, k + 1, out)
    ELSE AfterstatesNext(view, rotations, is_suicide, all_suicide, k, out,
                         Afterstate(view, rotations[k]))

\* View::afterstates from the flags of move_is_suicide on; a call of
\* move_is_suicide that fails ends afterstates.
AfterstatesFlagged(view, rotations, is_suicide) ==
    IF \E k \in 1..Len(rotations) : is_suicide[k].outcome # "ok"
    THEN [outcome |-> is_suicide[CHOOSE k \in 1..Len(rotations) :
                                    /\ is_suicide[k].outcome # "ok"
                                    /\ \A j \in 1..(k - 1) : is_suicide[j].outcome = "ok"].outcome,
          out |-> <<>>]
    ELSE AfterstatesFrom(view, rotations, is_suicide,
                         \A k \in 1..Len(rotations) : is_suicide[k].ret, 1, <<>>)

AfterstatesOf(view, rotations) ==
    AfterstatesFlagged(view, rotations,
                       [k \in 1..Len(rotations) |->
                           move_is_suicide(view.markers, view.tiles, rotations[k],
                                           view.active_player)])

\* View::afterstates: the pairs of a tile and a board, and how the call ended.
afterstates(view) == AfterstatesOf(view, all_rotated_tiles(view.hand))

\* TsuroEnv::view_of
view_of(w, player) ==
    [markers |-> w.markers, tiles |-> w.tiles, graph |-> w.graph,
     hand |-> w.e.player_hands[player + 1],
     active_player |-> w.e.active_player]

(***************************************************************************)
(* A game whose callers look at the afterstates of the active player's     *)
(* view before every tile.                                                 *)
(***************************************************************************)

\* afterstates() on the view of the active player, as get_return hands it
\* out, in the tile phase.
Afterstates ==
    /\ Running
    /\ env.phase = "Tiles"
    /\ LET r == afterstates(view_of(World, env.active_player))
       IN call' = [op |-> "afterstates", ret |-> r.out, outcome |-> r.outcome]
    /\ UNCHANGED <<markers, tiles, graph, env>>

NextAfter ==
    \/ \E position_index \in EnvMarkerIndices : StepPlaceMarker(position_index)
    \/ Afterstates
    \/ /\ call.op = "afterstates"
       /\ \E tile \in Candidates(env.active_player), how \in ShuffleOutcomes :
              StepPlaceTile(tile, how)

SpecAfter == InitEnv /\ [][NextAfter]_vars

\* step_place_tile is called on a game in its tile phase that has not ended,
\* right after afterstates() returned on the active player's view.
StepAfterAfterstates ==
    /\ call.op = "afterstates"
    /\ call.outcome = "ok"
    /\ TileStep

\* C28: on the active player's view of a game in its tile phase that has not
\* ended, afterstates() returns each tile once, returns a tile exactly when
\* step_place_tile accepts it, and pairs it with the board (grid, markers,
\* graph) the TsuroEnv holds after step_place_tile with that tile; the call
\* leaves the board of the game as it was.
C28_AfterstatesMatchSteps ==
    [][/\ call'.op = "afterstates" => UNCHANGED <<markers, tiles, graph, env>>
       /\ StepAfterAfterstates =>
            /\ \A j, k \in 1..Len(call.ret) : j # k => call.ret[j][1] # call.ret[k][1]
            /\ (\E k \in 1..Len(call.ret) : call.ret[k][1] = call'.tile)
                   <=> (call'.outcome = "ok" /\ call'.ret.move_is_valid)
            /\ \A k \in 1..Len(call.ret) :
                   call.ret[k][1] = call'.tile =>
                       call.ret[k][2] = [markers |-> markers', tiles |-> tiles',
                                         graph |-> graph']]_vars

\* How far afterstates() keeps to C28: for every step_place_tile that
\* returns, the tiles are distinct, a tile is returned exactly when the step
\* accepts it, and the paired board has the markers of the game after the
\* step; it has the grid and the graph of the game as well unless the step
\* ended the game before the tile was placed.
AfterstatesMatchCompletedSteps ==
    [][(StepAfterAfterstates /\ call'.outcome = "ok") =>
            /\ \A j, k \in 1..Len(call.ret) : j # k => call.ret[j][1] # call.ret[k][1]
            /\ (\E k \in 1..Len(call.ret) : call.ret[k][1] = call'.tile)
                   <=> call'.ret.move_is_valid
            /\ \A k \in 1..Len(call.ret) :
                   call.ret[k][1] = call'.tile =>
                       /\ call.ret[k][2].markers = markers'
                       /\ (terminated(env') /\ tiles' = tiles)
                              \/ (/\ call.ret[k][2].tiles = tiles'
                                  /\ call.ret[k][2].graph = graph')]_vars

\* C29: a player whose marker has been eliminated holds no tiles: the hand
\* went to the deck with the elimination and the player draws no tile
\* afterwards, neither as the active player of a step nor as the owner of the
\* dragon tile.
C29_EliminatedHoldNothing ==
    \A player \in 0..(Len(markers) - 1) :
        IsNone(markers[player + 1]) => env.player_hands[player + 1] = <<>>

\* The players whose marker is not null.
PlayersIn(board_markers) ==
    {player \in 0..(Len(board_markers) - 1) : IsSome(board_markers[player + 1])}

\* C30: once all markers are placed, num_players_left is the number of
\* markers that are not null after every step, and no player is eliminated
\* and counted twice: a step takes num_players_left down by exactly the
\* players it takes out, and a null marker stays null.
C30_PlayersLeftCounted ==
    [][/\ env'.num_markers_placed = env'.num_players
             => env'.num_players_left = Cardinality(PlayersIn(markers'))
       /\ env.num_markers_placed = env.num_players
             => /\ PlayersIn(markers') \subseteq PlayersIn(markers)
                /\ env'.num_players_left =
                       env.num_players_left
                           - Cardinality(PlayersIn(markers) \ PlayersIn(markers'))]_vars

\* One step took out a player by a collision or at the edge and the game goes
\* on with the players left.
C30_Witness ==
    /\ call.op = "step_place_tile"
    /\ Running
    /\ env.num_players_left = 3
    /\ Cardinality(PlayersIn(markers)) = 3

(***************************************************************************)
(* The tiles of a TsuroEnv: the deck, the hands and the board.             *)
(***************************************************************************)

\* The length of ALL_TILES.
NumTiles == 35

\* The number of tiles in the hands from the k-th on.
RECURSIVE TilesInHands(_, _)
TilesInHands(player_hands, k) ==
    IF k > Len(player_hands) THEN 0
    ELSE Len(player_hands[k]) + TilesInHands(player_hands, k + 1)

\* The tiles of the deck, of all hands and of the occupied grid cells.
TilesCounted == Len(env.deck) + TilesInHands(env.player_hands, 1) + NumPlaced

\* C31: in every state of a TsuroEnv the tiles in the deck, the tiles in all
\* hands and the occupied grid cells are 35 together: after dealing, after
\* accepted and rejected placements, drawing, eliminations, and steps that
\* end the game while the collisions are handled.
C31_TilesConserved == TilesCounted = NumTiles

\* A tile has been placed by a step that eliminated a player and after
\* which tiles were drawn: a hand is empty, the active hand is full again.
C31_Witness ==
    /\ call.op = "step_place_tile"
    /\ Running
    /\ call.ret.move_is_valid
    /\ NumPlaced >= 2
    /\ \E player \in 0..(Len(markers) - 1) :
           IsNone(markers[player + 1]) /\ env.player_hands[player + 1] = <<>>
    /\ Len(env.deck) > NumTiles - 3 * NumPlayers - NumPlaced

(***************************************************************************)
(* Board::move_markers called again.                                       *)
(***************************************************************************)

\* C32: move_markers called a second time, with no tile placed and no
\* player eliminated since the first call returned, completes, leaves every
\* marker as the first call left it and returns the list of eliminated
\* players the first call returned.
C32_MoveMarkersIdempotent ==
    (call.op = "move_markers" /\ Running) =>
        LET again == move_markers(markers, tiles)
        IN /\ again.outcome = "ok"
           /\ again.markers = markers
           /\ again.eliminated = call.ret

\* A first call has moved a marker and has reported another player as
\* eliminated.
C32_Witness ==
    /\ call.op = "move_markers"
    /\ Running
    /\ call.ret # <<>>
    /\ \E p \in Players : IsSome(markers[p + 1]) /\ Unwrap(markers[p + 1]).has_moved

(***************************************************************************)
(* The two phases of a TsuroEnv.                                           *)
(***************************************************************************)

\* The step is a call made in the wrong phase: step_place_tile before all
\* markers are placed, step_place_marker after.
WrongPhaseStep ==
    \/ call'.op = "step_place_tile" /\ env.num_markers_placed # env.num_players
    \/ call'.op = "step_place_marker" /\ env.num_markers_placed = env.num_players

\* The step is a step_place_marker call that returned.
MarkerStep == call'.op = "step_place_marker" /\ call'.outcome = "ok"

\* C33: after every step of a TsuroEnv the phase is Tiles exactly when
\* num_markers_placed = num_players, and a phase that is Tiles stays Tiles;
\* an accepted step_place_marker adds one marker, counts it and passes the
\* turn to the next player modulo num_players, a rejected one and every
\* step_place_tile leave the count as it is, and a rejected one leaves the
\* active player too; a call made in the wrong phase panics and changes
\* nothing.
C33_PhasesFollowMarkers ==
    [][/\ env'.phase = "Tiles" <=> env'.num_markers_placed = env'.num_players
       /\ env.phase = "Tiles" => env'.phase = "Tiles"
       /\ (MarkerStep /\ call'.ret.move_is_valid) =>
              /\ Len(markers') = Len(markers) + 1
              /\ env'.num_markers_placed = env.num_markers_placed + 1
              /\ env'.active_player = (env.active_player + 1) % env.num_players
       /\ (MarkerStep /\ ~call'.ret.move_is_valid) =>
              /\ markers' = markers
              /\ env'.num_markers_placed = env.num_markers_placed
              /\ env'.active_player = env.active_player
       /\ call'.op = "step_place_tile" =>
              env'.num_markers_placed = env.num_markers_placed
       /\ WrongPhaseStep =>
              /\ call'.outcome = "panic"
              /\ UNCHANGED <<markers, tiles, graph, env>>]_vars

\* The last marker has been placed: the phase has turned to Tiles and the
\* turn has come round to player 0.
C33_Witness ==
    /\ call.op = "step_place_marker"
    /\ Running
    /\ call.ret.move_is_valid
    /\ env.phase = "Tiles"
    /\ env.num_markers_placed = env.num_players
    /\ env.active_player = 0

====
